---- MODULE Spec2Model ----
(***************************************************************************)
(* A model of firstflamingo/python_utilities: the REST dispatcher          *)
(* (rest_interface.py), the resources and the catalog cache                *)
(* (rest_resources.py), the helpers they use (ffe_utils.py, ffe_time.py)   *)
(* and the reconciliation importer (markup.py).                            *)
(*                                                                         *)
(* Time is an integer number of clock ticks since an epoch; a datetime     *)
(* carries TicksPerSec ticks per second (the sub-second part stands for    *)
(* the microseconds).  A string is a TLA+ string, an md5 digest is the     *)
(* tuple of the hashed components tagged "md5" (an injective hash).        *)
(***************************************************************************)
EXTENDS Integers, Sequences, FiniteSets, TLC

VARIABLES
    now,        \* the wall clock (datetime.utcnow), in ticks
    users,      \* the User entities of the store: key id -> [ha1, admin]
    resource_class, \* Spec: the resource_class of the deployed RestHandler
    world,      \* Spec: the datastore, [store, catalog, nextId]
    handler,    \* Spec: <<>> or <<[req, resp, pre]>>, the handler that served a request
    run,        \* Spec: the catalog listings served, and the rebuilds made, by the
                \* catalog reads that followed one another since the last other request
    procs,      \* SpecConc: per handler process, its position and its local objects
    ver,        \* SpecConc: the number of writes made to the instances so far
    hdr,        \* SpecAuth: the Authorization header under study, <<>> or <<params>>
    issuedAt,   \* SpecAuth: the time at which the challenge behind hdr was issued
    lastAuth,   \* SpecAuth: <<>> or <<ok>>, the result of authenticate at this instant
    accepts,    \* SpecAuth: how often hdr has been accepted (capped)
    acceptKeys, \* SpecAuth: the 12-minute buckets in which hdr has been accepted
    located,    \* SpecLocator: <<>> or <<[path, cls, parsed]>>, a request path and
                \* what parse_request_path made of it
    replay,     \* SpecBind: <<>> or <<[made, req, header, ok]>>, a header made for one
                \* request, presented with another, and what authenticate returned
    importer,   \* SpecImport: the XMLImporter object
    feed,       \* SpecImport: the pass: how far the parser is, and what it delivered
    checked,    \* SpecGrammar: <<>> or <<[cls, identifier, valid]>>, an identifier and
                \* whether valid_identifier of the class accepted it
    account,    \* SpecUser: the User entity under update, and its last update
    seen,       \* SpecCond: <<>> or <<[lastmod, content]>>, what the client's last
                \* plain GET of the resource returned
    memo        \* SpecIds: the instances of a class and its memoised list of ids

authVars == <<hdr, issuedAt, lastAuth, accepts, acceptKeys>>
restVars == <<resource_class, world, handler, run>>
concVars == <<procs, ver>>
sideVars == <<located, replay, importer, feed>>
moreVars == <<checked, account, seen, memo>>
vars == <<now, users, restVars, concVars, authVars, sideVars, moreVars>>

(***************************************************************************)
(* Bounds of the model.                                                    *)
(***************************************************************************)
TicksPerSec == 2    \* clock resolution: sub-second instants per second
MaxReplays == 3     \* SpecAuth: presentations of one header that are counted
StartMinute == 45   \* SpecAuth: the clock starts this many minutes into hour 0
SpanMinutes == 30   \* SpecAuth: the clock runs over this many minutes
MaxNow == 3         \* Spec: the last instant of the clock
NumProcs == 2       \* SpecConc: handlers that run at the same time
MaxWrites == 3      \* SpecConc: writes to the instances that are followed
ConcMaxNow == 2     \* SpecConc: the last instant of the clock

(***************************************************************************)
(* ffe_time.py and datetime.                                               *)
(***************************************************************************)
SecondsOf(t) == t \div TicksPerSec
MinutesOf(t) == SecondsOf(t) \div 60
\* datetime.minute
minute(t) == MinutesOf(t) % 60
\* strftime('%Y%m%d%H'): the date and the hour, i.e. the hour since the epoch
strftime_YmdH(t) == MinutesOf(t) \div 60
\* timedelta(minutes = m)
timedelta_minutes(m) == m * 60 * TicksPerSec

(***************************************************************************)
(* ffe_utils.py.                                                           *)
(***************************************************************************)
md5_hash(components) == <<"md5", components>>

\* The text of a parameter list, 'key="value", ...', is the dictionary of
\* the values written between the quotes.  paramslist_from_dict writes each
\* value with '%s'.
paramslist_from_dict(dictionary) == dictionary
\* The part of a string that '[\w.@/]+' matches at its start: the string up
\* to its first character outside the letters, digits, '_', '.', '@', '/'.
MatchedPrefix(string) ==
    IF string = "-" THEN ""
    ELSE IF string = "tests@firstflamingo.com-x" THEN "tests@firstflamingo.com"
    ELSE string
\* The same for a path, written as its segments joined by '/': the segments
\* before which every segment is matched whole, the last of them cut.
MatchedPrefixOfPath(path) ==
    [j \in {i \in 1..Len(path) : \A h \in 1..(i - 1) : MatchedPrefix(path[h]) = path[h]} |->
        MatchedPrefix(path[j])]
\* What reg.findall captures as the value of a key.  A digest is
\* hexadecimal and is captured whole.
reg_value(key, value) ==
    IF key = "uri" THEN MatchedPrefixOfPath(value)
    ELSE IF key \in {"opaque", "response"} THEN value
    ELSE MatchedPrefix(value)
\* The pattern does not match: nothing is left of the value.
reg_no_match(key, captured) ==
    IF key = "uri" THEN captured = <<"">>
    ELSE IF key \in {"opaque", "response"} THEN FALSE
    ELSE captured = ""
\* dict_from_paramslist: dict(reg.findall(paramslist))
dict_from_paramslist(paramslist) ==
    [k \in {j \in DOMAIN paramslist : ~reg_no_match(j, reg_value(j, paramslist[j]))} |->
        reg_value(k, paramslist[k])]

(***************************************************************************)
(* Strings of the model.  An identifier string is one of a few literal     *)
(* strings; str() and int() are tabulated on them.                         *)
(***************************************************************************)
\* the strings matched by '[0-9]{1,19}$' (Resource.identifier_regex)
DigitStrings == {"1", "2", "3", "9", "01"}
\* int(string) on the digit strings
int(s) == CASE s = "1" -> 1 [] s = "01" -> 1 [] s = "2" -> 2 [] s = "3" -> 3 [] s = "9" -> 9
\* str(integer) on the key ids
str(i) == CASE i = 1 -> "1" [] i = 2 -> "2" [] i = 3 -> "3" [] i = 9 -> "9"

(***************************************************************************)
(* rest_resources.py: User.                                                *)
(***************************************************************************)
realm == "tests@firstflamingo.com"
\* User.username
username(key) == str(key)
\* User.password setter: the value stored in ha1
ha1_from_password(key, password) == md5_hash(<<username(key), realm, password>>)
\* User.valid_identifier: TRUE when it returns, FALSE when NoValidIdentifierError
User_valid_identifier(identifier) == identifier \in DigitStrings
\* The principals of the deployment: 1 is an administrator, 2 and 3 are not.
DeployedUsers ==
    [k \in {1, 2, 3} |-> [ha1 |-> ha1_from_password(k, IF k = 1 THEN "pw1" ELSE IF k = 2 THEN "pw2" ELSE "pw3"),
                          admin |-> (k = 1)]]

(***************************************************************************)
(* rest_interface.py: the Digest authenticator.                            *)
(***************************************************************************)
BucketMinutes == 12
LookbackMinutes == 5
OpaqueSecret == "FDhgfliubnw"
\* The key of the hour alone: the bucket within the hour is left out.
date_string_hourly(t) == <<strftime_YmdH(t), 0>>
\* now.strftime('%Y%m%d%H') + str(now.minute // 12)
date_string(t) == <<strftime_YmdH(t), minute(t) \div BucketMinutes>>
\* RestHandler.opaque_from_nonce
opaque_from_nonce(nonce, t) == md5_hash(<<date_string(t), nonce, OpaqueSecret>>)

\* A lookback of a quarter of an hour instead of five minutes.
opaque_is_current_wide(opaque, nonce, t) ==
    \/ opaque = opaque_from_nonce(nonce, t)
    \/ opaque = opaque_from_nonce(nonce, t - timedelta_minutes(15))
\* RestHandler.authenticate, lines 344-351: the opaque is that of the bucket
\* of now or, failing that, of the bucket of five minutes ago.
opaque_is_current(opaque, nonce, t) ==
    \/ opaque = opaque_from_nonce(nonce, t)
    \/ opaque = opaque_from_nonce(nonce, t - timedelta_minutes(LookbackMinutes))

AuthKeys == {"username", "nonce", "cnonce", "nc", "realm", "qop", "uri", "opaque", "response"}
\* ha2 and the reference response of authenticate (and of auth_header)
ha2_of(method, uri) == md5_hash(<<method, uri>>)
response_of(ha1, nonce, nc, cnonce, qop, ha2) == md5_hash(<<ha1, nonce, nc, cnonce, qop, ha2>>)

\* A check of the parameters that does not compare the uri with the path.
check_params_any_uri(params, method, path, t, userStore, userBefore) ==
    IF ~(AuthKeys \subseteq DOMAIN params) THEN [ok |-> FALSE, user |-> userBefore]
    ELSE IF params.realm # realm THEN [ok |-> FALSE, user |-> userBefore]
    ELSE IF ~opaque_is_current(params.opaque, params.nonce, t) THEN [ok |-> FALSE, user |-> userBefore]
    ELSE IF ~User_valid_identifier(params.username) THEN [ok |-> FALSE, user |-> <<>>]
    ELSE IF int(params.username) \notin DOMAIN userStore THEN [ok |-> FALSE, user |-> <<>>]
    ELSE LET key == int(params.username) IN
         IF params.response # response_of(userStore[key].ha1, params.nonce, params.nc,
                                          params.cnonce, params.qop, ha2_of(method, params.uri))
         THEN [ok |-> FALSE, user |-> <<key>>]
         ELSE [ok |-> TRUE, user |-> <<key>>]
\* An authenticate that does not compare the uri with the path.
authenticate_any_uri(auth, method, path, t, userStore, userBefore) ==
    IF auth = <<>> THEN [ok |-> FALSE, user |-> userBefore]
    ELSE check_params_any_uri(dict_from_paramslist(auth[1]), method, path, t, userStore, userBefore)

\* RestHandler.authenticate, lines 326-374, on the dictionary params parsed
\* from the header.  The result is [ok, user]: what authenticate returns
\* and what it leaves in self.user (<<>> is None); userBefore is self.user
\* before the call.
check_params(params, method, path, t, userStore, userBefore) ==
    IF ~(AuthKeys \subseteq DOMAIN params) THEN [ok |-> FALSE, user |-> userBefore]
    ELSE IF params.realm # realm THEN [ok |-> FALSE, user |-> userBefore]
    ELSE IF ~opaque_is_current(params.opaque, params.nonce, t) THEN [ok |-> FALSE, user |-> userBefore]
    ELSE IF ~User_valid_identifier(params.username) THEN [ok |-> FALSE, user |-> <<>>]
    ELSE IF int(params.username) \notin DOMAIN userStore THEN [ok |-> FALSE, user |-> <<>>]
    ELSE LET key == int(params.username)
             found == <<key>>
         IN
         IF params.uri # path THEN [ok |-> FALSE, user |-> found]
         ELSE IF params.response # response_of(userStore[key].ha1, params.nonce, params.nc,
                                               params.cnonce, params.qop, ha2_of(method, params.uri))
              THEN [ok |-> FALSE, user |-> found]
              ELSE [ok |-> TRUE, user |-> found]
\* RestHandler.authenticate.  auth is <<>> (no Authorization header) or
\* <<the parameter list of the header>>.
authenticate(auth, method, path, t, userStore, userBefore) ==
    IF auth = <<>> THEN [ok |-> FALSE, user |-> userBefore]
    ELSE check_params(dict_from_paramslist(auth[1]), method, path, t, userStore, userBefore)

\* RestHandler.require_authentication: the parameters of the challenge
challenge_params(nonce, t) ==
    paramslist_from_dict(
        [realm |-> realm, qop |-> "auth", nonce |-> nonce, opaque |-> opaque_from_nonce(nonce, t)])

\* ffe_utils.auth_header, lines 58-70, on the parameters parsed from the
\* WWW-Authenticate header
header_from_params(method, uri, auth_params, key, ha1) ==
    paramslist_from_dict(
         [realm |-> auth_params.realm, qop |-> auth_params.qop, nonce |-> auth_params.nonce,
          opaque |-> auth_params.opaque, username |-> username(key), uri |-> uri,
          nc |-> "00000001", cnonce |-> "0a4f113b",
          response |-> response_of(ha1, auth_params.nonce, "00000001", "0a4f113b", auth_params.qop,
                                   ha2_of(method, uri))])
\* ffe_utils.auth_header: the header a client builds from the
\* WWW-Authenticate parameter list of a 401 response
auth_header(method, uri, challenge, key, ha1) ==
    header_from_params(method, uri, dict_from_paramslist(challenge), key, ha1)

(***************************************************************************)
(* ffe_time.py: conversions between datetimes and RFC 1123 strings.  An    *)
(* RFC 1123 string has a resolution of one second: it is represented by    *)
(* the number of whole seconds it spells out.                              *)
(***************************************************************************)
\* rfc1123_from_utc: formats day, month, year, hour, minute, second
rfc1123_from_utc(dt) == SecondsOf(dt)
\* utc_from_rfc1123: strptime of the string, marked as UTC
utc_from_rfc1123(string) == string * TicksPerSec
\* datetime.replace(microsecond=0)
replace_microsecond_0(dt) == SecondsOf(dt) * TicksPerSec

(***************************************************************************)
(* rest_resources.py: resources.  Two resource classes are deployed:       *)
(* "Pub", a subclass of PublicResource, and "Note", a subclass of          *)
(* UserResource.  An entity is [lm, content, owner]: last_modified, the    *)
(* one content field of the subclass (<<>> is None) and owner_key (<<>>    *)
(* is None; a Pub has no such attribute and keeps <<>>).                    *)
(***************************************************************************)
is_publication(cls) == cls = "Pub"
url_name(cls) == IF cls = "Pub" THEN "pub" ELSE "note"
\* hasattr(resource, 'owner_key')
has_owner_key(cls) == cls = "Note"
\* the strings matched by '\w{1,19}$' (PublicResource.identifier_regex)
WordStrings == {"a", "b", "1", "2", "3", "9", "01", "api", "pub", "note"}

\* A comparison that keeps the sub-second part of last_modified.
last_modified_utc_raw(entity) == entity.lm
\* Resource.last_modified_utc
last_modified_utc(entity) == replace_microsecond_0(entity.lm)
\* Resource.last_modified_http
last_modified_http(entity) == rfc1123_from_utc(entity.lm)

\* A publication class that takes any identifier.
valid_identifier_lax(cls, identifier) ==
    IF cls = "Pub" THEN <<identifier>>
    ELSE IF identifier \in DigitStrings THEN <<int(identifier)>> ELSE <<>>
\* cls.valid_identifier(identifier) for an identifier taken from the path:
\* <<>> when NoValidIdentifierError is raised, else <<the identifier returned>>
valid_identifier(cls, identifier) ==
    IF cls = "Pub"
    THEN IF identifier \in WordStrings THEN <<identifier>> ELSE <<>>
    ELSE IF identifier \in DigitStrings THEN <<int(identifier)>> ELSE <<>>

\* The world a handler works on: [store, catalog, nextId].  store maps the
\* ids of the stored instances of the class to their entities; catalog is
\* <<>> or <<the Catalog entity of the class>>, an entity [catalog, lm]
\* whose catalog is <<>> (None) or <<the serialized listing>>; nextId is
\* the id the datastore allocates next.
IdRank(id) == CASE id = "a" -> 1 [] id = "b" -> 2 [] OTHER -> 0
\* the order of query().order(-Resource.last_modified): newest first, and
\* instances with the same last_modified in key order
ComesFirst(store, i, j) ==
    \/ store[i].lm > store[j].lm
    \/ store[i].lm = store[j].lm /\ IdRank(i) < IdRank(j)
\* each instance stands at the place given by the number of instances that
\* come before it
QueryNewestFirst(store, ids) ==
    LET ranked == {<<Cardinality({j \in ids : ComesFirst(store, j, i)}), i>> : i \in ids}
    IN [k \in 1..Cardinality(ids) |-> (CHOOSE p \in ranked : p[1] = k - 1)[2]]
\* query.fetch(limit): the first limit results
FetchLimit == 1000
fetch(order, limit) == IF Len(order) <= limit THEN order ELSE SubSeq(order, 1, limit)
\* the array of serialization_of_type: {'id': ..., 'lm': ...} per instance
CatalogArray(store) ==
    LET order == fetch(QueryNewestFirst(store, DOMAIN store), FetchLimit)
    IN [k \in 1..Len(order) |-> [id |-> order[k], lm |-> SecondsOf(last_modified_utc(store[order[k]]))]]

\* Catalog.get(cls): fetches the Catalog entity, creating and storing it
Catalog_get(w, t) ==
    IF w.catalog = <<>> THEN [w EXCEPT !.catalog = <<[catalog |-> <<>>, lm |-> t]>>] ELSE w
\* Catalog.invalidate, on the entity Catalog.get has fetched
Catalog_invalidate(w, t) ==
    IF w.catalog[1].catalog # <<>> THEN [w EXCEPT !.catalog = <<[catalog |-> <<>>, lm |-> t]>>] ELSE w
\* PublicResource.invalidate_catalog
invalidate_catalog(w, t) == Catalog_invalidate(Catalog_get(w, t), t)

\* A cache that takes an empty listing for a missing one.
Catalog_miss_when_empty(entity) == entity.catalog = <<>> \/ entity.catalog = << <<>> >>
\* Catalog.serialization_of_type, line 255: self.catalog is None
Catalog_miss(entity) == entity.catalog = <<>>
\* Catalog.serialization_of_type (json): [w, out, rebuilt], the world after
\* the call, the string returned and whether the listing was rebuilt
Catalog_serialization_of_type(w, t) ==
    IF Catalog_miss(w.catalog[1])
    THEN LET array == CatalogArray(w.store)
         IN [w |-> [w EXCEPT !.catalog = <<[catalog |-> <<array>>, lm |-> t]>>],
             out |-> array, rebuilt |-> TRUE]
    ELSE [w |-> w, out |-> w.catalog[1].catalog[1], rebuilt |-> FALSE]

\* put() of an instance: ndb stores it with last_modified = now (auto_now);
\* PublicResource.put then invalidates the catalog of the class
Resource_put(cls, w, id, entity, t) ==
    LET stored == [w EXCEPT !.store = [i \in DOMAIN w.store \cup {id} |->
                                          IF i = id THEN [entity EXCEPT !.lm = t] ELSE w.store[i]]]
    IN IF is_publication(cls) THEN invalidate_catalog(stored, t) ELSE stored
\* A delete that leaves the catalog of the class as it is.
Resource_delete_keeps_catalog(cls, w, id, t) ==
    [w EXCEPT !.store = [i \in DOMAIN w.store \ {id} |-> w.store[i]]]
\* delete() of an instance; PublicResource.delete then invalidates the catalog
Resource_delete(cls, w, id, t) ==
    LET removed == [w EXCEPT !.store = [i \in DOMAIN w.store \ {id} |-> w.store[i]]]
    IN IF is_publication(cls) THEN invalidate_catalog(removed, t) ELSE removed

\* A request body: [json, content, valid].  json says whether json.loads
\* accepts it; content is <<>> when the dictionary has no 'content', else
\* <<value>>; valid says whether the class accepts the dictionary.
\* update_with_dictionary of the subclass, written as User's is: a
\* dictionary the class does not accept raises InvalidUpdateDataError
\* (raised), and a value that is given is assigned and counts as a change,
\* as for name and email.
update_with_dictionary(entity, body) ==
    IF ~body.valid THEN [entity |-> entity, changes |-> FALSE, raised |-> TRUE]
    ELSE IF body.content # <<>>
    THEN [entity |-> [entity EXCEPT !.content = body.content], changes |-> TRUE, raised |-> FALSE]
    ELSE [entity |-> entity, changes |-> FALSE, raised |-> FALSE]
\* The test of the reported change left out: the instance is put whatever
\* update_with_dictionary returns.
update_with_string_always_puts(cls, w, id, entity, body, t) ==
    IF ~body.json THEN [w |-> w, entity |-> entity, raised |-> TRUE, put |-> FALSE]
    ELSE LET u == update_with_dictionary(entity, body) IN
         IF u.raised THEN [w |-> w, entity |-> entity, raised |-> TRUE, put |-> FALSE]
         ELSE [w |-> Resource_put(cls, w, id, u.entity, t), entity |-> [u.entity EXCEPT !.lm = t],
               raised |-> FALSE, put |-> TRUE]
\* Resource.update_with_string (json): [w, entity, raised, put]; raised when
\* json.loads raises ValueError or update_with_dictionary raises
update_with_string(cls, w, id, entity, body, t) ==
    IF ~body.json THEN [w |-> w, entity |-> entity, raised |-> TRUE, put |-> FALSE]
    ELSE LET u == update_with_dictionary(entity, body) IN
         IF u.raised THEN [w |-> w, entity |-> entity, raised |-> TRUE, put |-> FALSE]
         ELSE IF u.changes
         THEN [w |-> Resource_put(cls, w, id, u.entity, t), entity |-> [u.entity EXCEPT !.lm = t],
               raised |-> FALSE, put |-> TRUE]
         ELSE [w |-> w, entity |-> entity, raised |-> FALSE, put |-> FALSE]
\* Resource.serialization_of_type (json) of the subclass
serialization_of_type(id, entity) == [id |-> id, content |-> entity.content]

(***************************************************************************)
(* rest_interface.py: ResourceHandler and RestHandler.  A request is       *)
(* [method, path, auth, ctype, accept, ims, ius, body]: path is the list   *)
(* of the segments of request.path, auth is <<>> or <<the dictionary of    *)
(* the Authorization header>>, ctype and accept are <<>> or <<the header   *)
(* value>>, ims and ius are <<>> or <<the RFC 1123 date of the header>>.   *)
(* A handler yields [w, status, lastmod, body, challenge, location, user,  *)
(* rebuilt]: the world after it, the response, self.user and whether it    *)
(* rebuilt the catalog listing.  An exception no handler catches ends the  *)
(* request with status 500.                                                *)
(***************************************************************************)
JSON == "application/json"
XML == "application/xml"
\* DataType.type_for_string and the membership test of input_data_type:
\* the data type of the Content-Type header when the class reads it
input_data_type(ctype) ==
    IF ctype # <<>> /\ ctype[1] = JSON THEN <<JSON>> ELSE <<>>
\* output_data_type: the first type of the Accept header the class writes
output_data_type(accept) ==
    IF accept # <<>> /\ accept[1] = JSON THEN <<JSON>> ELSE <<>>

\* A locator that takes the fourth segment of a longer path for the identifier.
parse_request_path_deep(path, cls) ==
    LET none == [valid_class_url |-> FALSE, valid_resource_id |-> FALSE, resource_id |-> <<>>] IN
    IF Len(path) < 3 THEN none
    ELSE IF path[3] # url_name(cls) THEN none
    ELSE IF Len(path) = 3 THEN [none EXCEPT !.valid_class_url = TRUE]
    ELSE LET id == valid_identifier(cls, path[4]) IN
         IF id # <<>> THEN [none EXCEPT !.valid_resource_id = TRUE, !.resource_id = id] ELSE none
\* ResourceHandler.parse_request_path
parse_request_path(path, cls) ==
    LET none == [valid_class_url |-> FALSE, valid_resource_id |-> FALSE, resource_id |-> <<>>] IN
    IF Len(path) < 3 THEN none
    ELSE IF path[3] # url_name(cls) THEN none
    ELSE IF Len(path) = 3 THEN [none EXCEPT !.valid_class_url = TRUE]
    ELSE IF Len(path) = 4
         THEN LET id == valid_identifier(cls, path[4]) IN
              IF id # <<>> THEN [none EXCEPT !.valid_resource_id = TRUE, !.resource_id = id] ELSE none
         ELSE none
\* ResourceHandler.resource: <<>> or <<the id of the instance fetched>>
resource_of(path, cls, w) ==
    LET loc == parse_request_path(path, cls) IN
    IF loc.valid_resource_id /\ loc.resource_id[1] \in DOMAIN w.store THEN loc.resource_id ELSE <<>>

\* A rule that authorizes every authenticated principal.
resource_is_authorized_any(user, userStore, cls, entity) == user # <<>>
\* RestHandler.resource_is_authorized
resource_is_authorized(user, userStore, cls, entity) ==
    IF user = <<>> THEN FALSE
    ELSE IF userStore[user[1]].admin THEN TRUE
    ELSE has_owner_key(cls) /\ entity.owner = user

\* self.error(code)
Error(w, code, user) ==
    [w |-> w, status |-> code, lastmod |-> <<>>, body |-> <<>>, challenge |-> <<>>,
     location |-> <<>>, user |-> user, rebuilt |-> FALSE]
\* an exception that reaches webapp2
Unhandled(w, user) == Error(w, 500, user)
\* RestHandler.require_authentication
require_authentication(w, nonce, t, user) ==
    [Error(w, 401, user) EXCEPT !.challenge = <<challenge_params(nonce, t)>>]
\* RestHandler.write_output for an instance; last_modified is None (-1) on
\* an instance that was never put, and rfc1123_from_utc then raises
write_output(w, id, entity, status, location, user) ==
    IF entity.lm < 0 THEN Unhandled(w, user)
    ELSE [w |-> w, status |-> status, lastmod |-> <<last_modified_http(entity)>>,
          body |-> <<serialization_of_type(id, entity)>>, challenge |-> <<>>,
          location |-> location, user |-> user, rebuilt |-> FALSE]
\* RestHandler.write_output for the catalog of the class
write_output_catalog(w, t, user) ==
    LET ser == Catalog_serialization_of_type(w, t) IN
    [w |-> ser.w, status |-> 200, lastmod |-> <<last_modified_http(w.catalog[1])>>,
     body |-> <<ser.out>>, challenge |-> <<>>, location |-> <<>>, user |-> user,
     rebuilt |-> ser.rebuilt]

\* A blank instance, as cls(id=...) makes it
BlankEntity == [lm |-> -1, content |-> <<>>, owner |-> <<>>]

\* The timestamp check left out: a given header always lets the update pass.
put_precondition_unchecked(entity, ius) ==
    IF ius = <<>> THEN 409 ELSE 200
\* The header check left out: a missing header lets the update pass.
put_precondition_optional(entity, ius) ==
    IF ius = <<>> THEN 200
    ELSE IF last_modified_utc(entity) <= utc_from_rfc1123(ius[1]) THEN 200 ELSE 412
\* RestHandler.put, lines 256-265: the preconditions of an update, as the
\* status they lead to (200: the update goes on)
put_precondition(entity, ius) ==
    IF ius = <<>> THEN 409
    ELSE IF last_modified_utc(entity) <= utc_from_rfc1123(ius[1]) THEN 200 ELSE 412

\* RestHandler.put
put(req, w, userStore, cls, nonce, t) ==
    LET a == authenticate(req.auth, "PUT", req.path, t, userStore, <<>>) IN
    IF ~a.ok THEN require_authentication(w, nonce, t, a.user)
    ELSE IF input_data_type(req.ctype) = <<>> THEN Error(w, 415, a.user)
    ELSE LET res == resource_of(req.path, cls, w) IN
    IF res # <<>>
    THEN LET id == res[1]
             entity == w.store[id]
         IN
         IF ~resource_is_authorized(a.user, userStore, cls, entity) THEN Error(w, 401, a.user)
         ELSE IF put_precondition(entity, req.ius) # 200
              THEN Error(w, put_precondition(entity, req.ius), a.user)
              ELSE LET u == update_with_string(cls, w, id, entity, req.body, t) IN
                   IF u.raised THEN Unhandled(u.w, a.user)
                   ELSE write_output(u.w, id, u.entity, 200, <<>>, a.user)
    ELSE IF is_publication(cls)
         THEN IF ~userStore[a.user[1]].admin THEN Error(w, 401, a.user)
              ELSE LET loc == parse_request_path(req.path, cls)
                       w1 == invalidate_catalog(w, t)
                   IN
                   IF ~loc.valid_resource_id THEN Error(w1, 400, a.user)
                   ELSE LET id == loc.resource_id[1]
                            u == update_with_string(cls, w1, id, BlankEntity, req.body, t)
                        IN
                        IF u.raised THEN Unhandled(u.w, a.user)
                        ELSE write_output(u.w, id, u.entity, 201, <<>>, a.user)
         ELSE Error(w, 404, a.user)

\* A test that takes an equal timestamp for a newer one.
not_modified_since_strict(entity, ims) ==
    ims # <<>> /\ last_modified_utc(entity) < utc_from_rfc1123(ims[1])
\* RestHandler.get, line 224: the test of If-Modified-Since
not_modified_since(entity, ims) ==
    ims # <<>> /\ last_modified_utc(entity) <= utc_from_rfc1123(ims[1])

\* A GET that authenticates the requests for publications too.
get_authenticate_always(auth, path, t, userStore, cls) ==
    authenticate(auth, "GET", path, t, userStore, <<>>)
\* RestHandler.get, line 198: a publication class is read without
\* authentication, authenticate is not called
get_authenticate(auth, path, t, userStore, cls) ==
    IF is_publication(cls) THEN [ok |-> TRUE, user |-> <<>>]
    ELSE authenticate(auth, "GET", path, t, userStore, <<>>)

\* RestHandler.get
get(req, w, userStore, cls, nonce, t) ==
    LET a == get_authenticate(req.auth, req.path, t, userStore, cls)
        loc == parse_request_path(req.path, cls)
    IN
    IF ~a.ok THEN require_authentication(w, nonce, t, a.user)
    ELSE IF loc.valid_class_url
    THEN IF ~is_publication(cls) THEN Error(w, 405, a.user)
         ELSE LET w1 == Catalog_get(w, t) IN
              IF not_modified_since(w1.catalog[1], req.ims)
              THEN Error(w1, 304, a.user)
              ELSE IF output_data_type(req.accept) = <<>> THEN Error(w1, 406, a.user)
              ELSE write_output_catalog(w1, t, a.user)
    ELSE LET res == resource_of(req.path, cls, w) IN
         IF res = <<>> THEN Error(w, 404, a.user)
         ELSE LET entity == w.store[res[1]] IN
              IF ~(is_publication(cls) \/ resource_is_authorized(a.user, userStore, cls, entity))
              THEN Error(w, 401, a.user)
              ELSE IF not_modified_since(entity, req.ims)
              THEN Error(w, 304, a.user)
              ELSE IF output_data_type(req.accept) = <<>> THEN Error(w, 406, a.user)
              ELSE write_output(w, res[1], entity, 200, <<>>, a.user)

\* RestHandler.delete
delete(req, w, userStore, cls, nonce, t) ==
    LET a == authenticate(req.auth, "DELETE", req.path, t, userStore, <<>>) IN
    IF ~a.ok THEN require_authentication(w, nonce, t, a.user)
    ELSE LET res == resource_of(req.path, cls, w) IN
         IF res = <<>> THEN Error(w, 404, a.user)
         ELSE IF ~resource_is_authorized(a.user, userStore, cls, w.store[res[1]]) THEN Error(w, 401, a.user)
         ELSE Error(Resource_delete(cls, w, res[1], t), 204, a.user)

\* A post that creates instances of publication classes too.
post_publications_too(req, w, userStore, cls, nonce, t) ==
    LET a == authenticate(req.auth, "POST", req.path, t, userStore, <<>>) IN
    IF ~a.ok THEN require_authentication(w, nonce, t, a.user)
    ELSE IF ~parse_request_path(req.path, cls).valid_class_url THEN Error(w, 405, a.user)
    ELSE IF input_data_type(req.ctype) = <<>> THEN Error(w, 415, a.user)
    ELSE IF ~req.body.json THEN Unhandled(w, a.user)
    ELSE IF update_with_dictionary(BlankEntity, req.body).raised THEN Error(w, 422, a.user)
    ELSE LET id == w.nextId
             u == update_with_dictionary(BlankEntity, req.body)
             owned == [u.entity EXCEPT !.owner = a.user]
             w1 == Resource_put(cls, [w EXCEPT !.nextId = id + 1], id, owned, t)
         IN write_output(w1, id, w1.store[id], 201, <<id>>, a.user)
\* A post that challenges only when no principal was looked up: a failed
\* authentication that found the principal goes on.
post_past_failed_authentication(req, w, userStore, cls, nonce, t) ==
    LET a == authenticate(req.auth, "POST", req.path, t, userStore, <<>>) IN
    IF ~a.ok /\ a.user = <<>> THEN require_authentication(w, nonce, t, a.user)
    ELSE IF ~parse_request_path(req.path, cls).valid_class_url THEN Error(w, 405, a.user)
    ELSE IF is_publication(cls) THEN Error(w, 405, a.user)
    ELSE IF input_data_type(req.ctype) = <<>> THEN Error(w, 415, a.user)
    ELSE IF ~req.body.json THEN Unhandled(w, a.user)
    ELSE IF update_with_dictionary(BlankEntity, req.body).raised THEN Error(w, 422, a.user)
    ELSE LET id == w.nextId
             u == update_with_dictionary(BlankEntity, req.body)
             owned == [u.entity EXCEPT !.owner = a.user]
             w1 == Resource_put(cls, [w EXCEPT !.nextId = id + 1], id, owned, t)
         IN write_output(w1, id, w1.store[id], 201, <<id>>, a.user)
\* RestHandler.post (allows_anonymous_post is False)
post(req, w, userStore, cls, nonce, t) ==
    LET a == authenticate(req.auth, "POST", req.path, t, userStore, <<>>) IN
    IF ~a.ok THEN require_authentication(w, nonce, t, a.user)
    ELSE IF ~parse_request_path(req.path, cls).valid_class_url THEN Error(w, 405, a.user)
    ELSE IF is_publication(cls) THEN Error(w, 405, a.user)
    ELSE IF input_data_type(req.ctype) = <<>> THEN Error(w, 415, a.user)
    ELSE IF ~req.body.json THEN Unhandled(w, a.user)
    ELSE IF update_with_dictionary(BlankEntity, req.body).raised THEN Error(w, 422, a.user)
    ELSE LET id == w.nextId
             u == update_with_dictionary(BlankEntity, req.body)
             owned == [u.entity EXCEPT !.owner = a.user]
             w1 == Resource_put(cls, [w EXCEPT !.nextId = id + 1], id, owned, t)
         IN write_output(w1, id, w1.store[id], 201, <<id>>, a.user)

\* webapp2 dispatches on the request method
dispatch(req, w, userStore, cls, nonce, t) ==
    CASE req.method = "GET" -> get(req, w, userStore, cls, nonce, t)
      [] req.method = "PUT" -> put(req, w, userStore, cls, nonce, t)
      [] req.method = "DELETE" -> delete(req, w, userStore, cls, nonce, t)
      [] req.method = "POST" -> post(req, w, userStore, cls, nonce, t)

(***************************************************************************)
(* Spec: a deployed RestHandler for one resource class serves requests,    *)
(* one at a time, each as a whole; the clock ticks in between.             *)
(***************************************************************************)
EmptyWorld == [store |-> <<>>, catalog |-> <<>>, nextId |-> 1]
NoRun == [listings |-> {}, rebuilds |-> 0]
\* the variables of Spec while no dispatcher runs
RestIdle ==
    /\ resource_class = "Pub"
    /\ world = EmptyWorld
    /\ handler = <<>>
    /\ run = NoRun
\* the variables of SpecConc while no concurrent handlers are studied
ConcIdle ==
    /\ procs = <<>>
    /\ ver = 0
\* the variables of SpecAuth while no header is studied
AuthIdle ==
    /\ hdr = <<>>
    /\ issuedAt = 0
    /\ lastAuth = <<>>
    /\ accepts = 0
    /\ acceptKeys = {}
\* the variables of SpecLocator, SpecBind and SpecImport while no path, no
\* header and no feed is studied
SideIdle ==
    /\ located = <<>>
    /\ replay = <<>>
    /\ importer = <<>>
    /\ feed = <<>>
\* the variables of SpecGrammar, SpecUser, SpecCond and SpecIds while no
\* identifier, no account, no client and no memoised list is studied
MoreIdle ==
    /\ checked = <<>>
    /\ account = <<>>
    /\ seen = <<>>
    /\ memo = <<>>

\* The inputs of the model.
Classes == {"Pub", "Note"}
\* the ids the datastore allocates to the instances of Note
NoteIds == {1}
DispatchNonces == {"17"}
\* a string of twenty letters: longer than an identifier may be
LongWord == "aaaaaaaaaaaaaaaaaaaa"
Paths(c) ==
    IF c = "Pub"
    THEN {<<"", "api", "pub">>, <<"", "api", "pub", "a">>, <<"", "api", "pub", "-">>,
          <<"", "api", "pub", LongWord>>}
    ELSE {<<"", "api", "note">>, <<"", "api", "note", "1">>, <<"", "api", "note", "x">>}
\* The Authorization headers.  Genuine: the header principal 1, 2 or 3
\* makes for the request from a challenge of this instant.
GenuineHeader(method, path, t, k) ==
    auth_header(method, path, challenge_params("17", t), k, DeployedUsers[k].ha1)
GenuineHeaders(method, path, t) == {<<GenuineHeader(method, path, t, k)>> : k \in {1, 2, 3}}
\* Failing, by cause: no header; a key is missing; another realm; the
\* opaque of an hour ago; a principal that does not exist; a username that
\* is no identifier; the header of another path; a wrong password.
FailingHeaders(method, path, t) ==
    LET h == GenuineHeader(method, path, t, 2) IN
    [none |-> <<>>,
     missing_key |-> <<[k \in DOMAIN h \ {"opaque"} |-> h[k]]>>,
     realm |-> <<[h EXCEPT !.realm = "other@example.com"]>>,
     expired |-> <<auth_header(method, path, challenge_params("17", t - timedelta_minutes(60)), 2,
                               DeployedUsers[2].ha1)>>,
     unknown |-> <<auth_header(method, path, challenge_params("17", t), 9, ha1_from_password(9, "pw9"))>>,
     invalid |-> <<[h EXCEPT !.username = "x"]>>,
     uri |-> <<GenuineHeader(method, <<"", "api", "other">>, t, 2)>>,
     response |-> <<auth_header(method, path, challenge_params("17", t), 2, ha1_from_password(2, "guess"))>>]
FailureCauses == {"none", "missing_key", "realm", "expired", "unknown", "invalid", "uri", "response"}
FailingHeaderSet(method, path, t) ==
    LET failing == FailingHeaders(method, path, t) IN {failing[c] : c \in FailureCauses}
ContentTypes == {<<JSON>>, <<XML>>}
Accepts == {<<>>, <<JSON>>}
\* the bodies: two contents, a dictionary without content, a dictionary the
\* class does not accept, and a text that is not JSON
Bodies == {[json |-> TRUE, content |-> <<"v1">>, valid |-> TRUE], [json |-> TRUE, content |-> <<"v2">>, valid |-> TRUE],
           [json |-> TRUE, content |-> <<>>, valid |-> TRUE], [json |-> TRUE, content |-> <<"v1">>, valid |-> FALSE],
           [json |-> FALSE, content |-> <<>>, valid |-> FALSE]}
NoBody == [json |-> FALSE, content |-> <<>>, valid |-> FALSE]
\* the dates of If-Modified-Since and If-Unmodified-Since
HourAhead == SecondsOf(MaxNow) + 3600
Dates == {<<>>} \cup {<<d>> : d \in 0..SecondsOf(MaxNow)} \cup {<<HourAhead>>}
\* The requests: every combination of an Authorization header, the other
\* headers and the body.
AuthHeaders(method, path, t) == GenuineHeaders(method, path, t) \cup FailingHeaderSet(method, path, t)
RequestsTo(p, t) ==
    {[method |-> "GET", path |-> p, auth |-> a, ctype |-> <<>>, accept |-> ac, ims |-> d, ius |-> <<>>, body |-> NoBody] :
        a \in AuthHeaders("GET", p, t), ac \in Accepts, d \in Dates}
    \cup {[method |-> "PUT", path |-> p, auth |-> a, ctype |-> ct, accept |-> <<>>, ims |-> <<>>, ius |-> d, body |-> b] :
        a \in AuthHeaders("PUT", p, t), ct \in ContentTypes, d \in Dates, b \in Bodies}
    \cup {[method |-> "DELETE", path |-> p, auth |-> a, ctype |-> <<>>, accept |-> <<>>, ims |-> <<>>, ius |-> <<>>, body |-> NoBody] :
        a \in AuthHeaders("DELETE", p, t)}
    \cup {[method |-> "POST", path |-> p, auth |-> a, ctype |-> ct, accept |-> <<>>, ims |-> <<>>, ius |-> <<>>, body |-> b] :
        a \in AuthHeaders("POST", p, t), ct \in ContentTypes, b \in Bodies}
Requests(c, t) == UNION {RequestsTo(p, t) : p \in Paths(c)}

Init ==
    /\ now = 0
    /\ users = DeployedUsers
    /\ resource_class \in Classes
    /\ world = EmptyWorld
    /\ handler = <<>>
    /\ run = NoRun
    /\ ConcIdle
    /\ AuthIdle
    /\ SideIdle
    /\ MoreIdle

\* The clock advances between two requests.
Tick ==
    /\ handler = <<>>
    /\ now < MaxNow
    /\ now' = now + 1
    /\ UNCHANGED <<users, restVars, concVars, authVars, sideVars, moreVars>>

IsCatalogRead(req) == req.method = "GET" /\ parse_request_path(req.path, resource_class).valid_class_url

\* A request arrives and a handler serves it: out is what the handler yields.
Handle(req, out) ==
    /\ world.nextId \in NoteIds \/ ~(req.method = "POST" /\ resource_class = "Note")
    /\ world' = out.w
    /\ handler' = <<[req |-> req,
                     resp |-> [status |-> out.status, lastmod |-> out.lastmod, body |-> out.body,
                               challenge |-> out.challenge, location |-> out.location],
                     user |-> out.user, pre |-> world]>>
    /\ run' = IF ~IsCatalogRead(req) THEN NoRun
              ELSE IF out.status # 200 THEN run
              ELSE [listings |-> run.listings \cup {out.body[1]},
                    rebuilds |-> IF out.rebuilt /\ run.rebuilds < 2
                                 THEN run.rebuilds + 1 ELSE run.rebuilds]
    /\ UNCHANGED <<now, users, resource_class, concVars, authVars, sideVars, moreVars>>

\* The handler serves the next request once the last one is finished.
Serve ==
    /\ handler = <<>>
    /\ \E req \in Requests(resource_class, now), nonce \in DispatchNonces :
          Handle(req, dispatch(req, world, users, resource_class, nonce, now))

\* The response is sent and the handler object is dropped.
Finish ==
    /\ handler # <<>>
    /\ handler' = <<>>
    /\ UNCHANGED <<now, users, resource_class, world, run, concVars, authVars, sideVars, moreVars>>

Next ==
    \/ Tick
    \/ Serve
    \/ Finish

Spec == Init /\ [][Next]_vars

(***************************************************************************)
(* Claims on the dispatcher (Spec).                                        *)
(***************************************************************************)
Served == handler # <<>>
\* the request served, its response and the world before it
Req == handler[1].req
Resp == handler[1].resp
Pre == handler[1].pre
\* the instance the request addresses, if it existed: <<>> or <<id>>
Addressed == resource_of(Req.path, resource_class, Pre)
\* The request carries the Authorization header that principal k makes for
\* this method and path from a challenge of this instant.
SentBy(k) == Req.auth = <<GenuineHeader(Req.method, Req.path, now, k)>>
\* The authorization rule: an administrator, or the recorded owner.
MayWrite(k, entity) == users[k].admin \/ entity.owner = <<k>>
\* A PUT of a write-authorized principal, with a Content-Type the class
\* reads, to an instance that exists.
AuthorizedPut ==
    /\ Served /\ Req.method = "PUT" /\ Addressed # <<>> /\ Req.ctype = <<JSON>>
    /\ \E k \in DOMAIN users : SentBy(k) /\ MayWrite(k, Pre.store[Addressed[1]])

\* C1: a PUT of an authenticated, write-authorized principal whose
\* If-Unmodified-Since equals the current last-modified of the resource, to
\* the second, is not answered with 412 and is applied: the content it
\* carries is stored.
C1_PutWithCurrentTimestampIsApplied ==
    (AuthorizedPut /\ Req.ius = <<SecondsOf(Pre.store[Addressed[1]].lm)>>)
        => /\ Resp.status # 412
           /\ (Req.body.json /\ Req.body.valid) => Resp.status = 200
           /\ (Req.body.json /\ Req.body.valid /\ Req.body.content # <<>>)
                 => /\ world.store[Addressed[1]].content = Req.body.content
                    /\ world.store[Addressed[1]].lm = now
\* Such a PUT has replaced the content of an instance that was last
\* modified in the middle of a second.
C1_Witness ==
    /\ AuthorizedPut /\ Req.ius = <<SecondsOf(Pre.store[Addressed[1]].lm)>>
    /\ Pre.store[Addressed[1]].lm % TicksPerSec # 0
    /\ Resp.status = 200
    /\ world.store[Addressed[1]].content = Req.body.content
    /\ world.store[Addressed[1]].content # Pre.store[Addressed[1]].content

\* A PUT with an If-Unmodified-Since older than the last-modified second of
\* the existing instance it addresses.
StalePut ==
    /\ Served /\ Req.method = "PUT" /\ Addressed # <<>> /\ Req.ius # <<>>
    /\ SecondsOf(Pre.store[Addressed[1]].lm) > Req.ius[1]
\* C3: a PUT to an existing resource whose stored last-modified is strictly
\* newer than If-Unmodified-Since leaves the resource, its timestamp and the
\* catalog unchanged, and is answered with 412.
C3_StalePutIsRefused ==
    /\ StalePut => world = Pre
    /\ (StalePut /\ AuthorizedPut) => Resp.status = 412
C3_Witness == StalePut /\ AuthorizedPut /\ Resp.status = 412 /\ Req.body.content # <<>>

\* C4: a PUT of an authenticated, write-authorized principal to an existing
\* resource, without If-Unmodified-Since, is answered with 409 and leaves
\* the stored resource unchanged.
C4_PutWithoutHeaderIsConflict ==
    (AuthorizedPut /\ Req.ius = <<>>) => (Resp.status = 409 /\ world = Pre)
C4_Witness == AuthorizedPut /\ Req.ius = <<>> /\ Resp.status = 409 /\ Req.body.content # <<>>

RequiresAuthentication == Served /\ ~(Req.method = "GET" /\ is_publication(resource_class))
\* The response is the challenge of require_authentication.
IsChallenge == Resp.status = 401 /\ Resp.challenge # <<>>
\* The request carries the genuine header of some principal.
SentByPrincipal == \E k \in DOMAIN users : SentBy(k)

\* C11: authenticate succeeds on the Authorization header built, for the
\* method and the uri of the request, by an existing principal from a
\* challenge whose opaque is current; and it fails when the response value
\* is replaced by a different one.
C11_HeaderOfValidTupleAuthenticates ==
    /\ (RequiresAuthentication /\ SentByPrincipal) => ~IsChallenge
    /\ (RequiresAuthentication /\ Req.auth = FailingHeaders(Req.method, Req.path, now).response)
          => IsChallenge

\* The request requires authentication and its header fails for one of the
\* causes: no header, missing key, realm, expired opaque, unknown or invalid
\* principal, uri mismatch, response mismatch.
FailsAuthentication ==
    /\ RequiresAuthentication
    /\ Req.auth \in FailingHeaderSet(Req.method, Req.path, now)
\* C12: every authentication failure on a request that requires
\* authentication is answered by one and the same response, whatever the
\* cause: status 401, a fresh WWW-Authenticate challenge and nothing else;
\* and it leaves the store unchanged.
C12_AuthenticationFailuresAreUniform ==
    FailsAuthentication =>
        /\ \E nonce \in DispatchNonces :
              Resp = [status |-> 401, lastmod |-> <<>>, body |-> <<>>,
                      challenge |-> <<challenge_params(nonce, now)>>, location |-> <<>>]
        /\ world = Pre
\* A PUT to an existing instance, with the header made for another path, has
\* been answered with the challenge.
C12_Witness ==
    /\ FailsAuthentication /\ Req.auth = FailingHeaders(Req.method, Req.path, now).uri
    /\ Req.method = "PUT" /\ Addressed # <<>> /\ Req.ctype = <<JSON>> /\ Req.body.content # <<>>
    /\ IsChallenge

\* C13: for an authenticated principal that is neither administrator nor
\* owner, a GET, PUT or DELETE addressed to an existing owned resource is
\* answered with 404, as it is for an identifier at which nothing exists.
C13_NonOwnerGetsNotFound ==
    ( /\ Served /\ has_owner_key(resource_class) /\ Addressed # <<>>
      /\ Req.method \in {"GET", "PUT", "DELETE"}
      /\ Req.method = "PUT" => Req.ctype = <<JSON>>
      /\ \E k \in DOMAIN users : SentBy(k) /\ ~MayWrite(k, Pre.store[Addressed[1]]) )
        => Resp.status = 404

\* C14: every response with status 401 carries a WWW-Authenticate header
\* with a Digest challenge.
C14_Every401CarriesChallenge ==
    (Served /\ Resp.status = 401) => Resp.challenge # <<>>

\* C15: a PUT or DELETE changes or removes an existing resource only when
\* the request is authenticated as an administrator or as the recorded owner
\* of that resource; a resource of a class without owner attribute only when
\* it is authenticated as an administrator.
C15_OnlyAuthorizedWritersChange ==
    (Served /\ Req.method \in {"PUT", "DELETE"}) =>
        \A id \in DOMAIN Pre.store :
            (id \notin DOMAIN world.store \/ world.store[id] # Pre.store[id])
                => \E k \in DOMAIN users :
                      /\ SentBy(k)
                      /\ \/ users[k].admin
                         \/ has_owner_key(resource_class) /\ Pre.store[id].owner = <<k>>
\* An owner that is no administrator has replaced the content of its resource.
C15_Witness ==
    /\ Served /\ Req.method = "PUT" /\ Addressed # <<>> /\ SentBy(2) /\ ~users[2].admin
    /\ Pre.store[Addressed[1]].owner = <<2>>
    /\ world.store[Addressed[1]].content # Pre.store[Addressed[1]].content

\* A PUT addressed to a target that does not exist.
PutToMissing == Served /\ Req.method = "PUT" /\ Addressed = <<>>
\* C16: a PUT to a target that does not exist creates an instance only if
\* the class is a publication class, the principal is an administrator and
\* the identifier of the path passes the validation of the class; for an
\* owned class such a PUT creates nothing and, once authenticated and of a
\* supported Content-Type, is answered with 404.
C16_PutCreatesOnlyPublicationsByAdmin ==
    /\ (PutToMissing /\ DOMAIN world.store # DOMAIN Pre.store) =>
          /\ is_publication(resource_class)
          /\ \E k \in DOMAIN users : SentBy(k) /\ users[k].admin
          /\ Len(Req.path) = 4 /\ Req.path[4] \in WordStrings
          /\ DOMAIN world.store = DOMAIN Pre.store \cup {Req.path[4]}
    /\ (PutToMissing /\ ~is_publication(resource_class)) =>
          /\ world = Pre
          /\ (SentByPrincipal /\ Req.ctype = <<JSON>>) => Resp.status = 404
\* An administrator has created a publication with a PUT.
C16_Witness ==
    /\ PutToMissing /\ is_publication(resource_class) /\ SentBy(1)
    /\ Resp.status = 201 /\ "a" \in DOMAIN world.store

\* C17: a POST to a publication class creates no instance, and an
\* authenticated POST to the URL of the class is answered with 405.
C17_PostToPublicationIs405 ==
    (Served /\ Req.method = "POST" /\ is_publication(resource_class)) =>
        /\ world = Pre
        /\ (SentByPrincipal /\ Len(Req.path) = 3) => Resp.status = 405
\* An authenticated POST of a good payload to the class URL got 405.
C17_Witness ==
    /\ Served /\ Req.method = "POST" /\ is_publication(resource_class) /\ Len(Req.path) = 3
    /\ SentBy(1) /\ Req.ctype = <<JSON>> /\ Req.body.json /\ Req.body.valid /\ Req.body.content # <<>>
    /\ Resp.status = 405

\* The operations that apply the payload of the request: a POST that
\* creates, a PUT that updates, a PUT that creates.
PostCreate ==
    /\ Served /\ Req.method = "POST" /\ ~is_publication(resource_class) /\ Len(Req.path) = 3
    /\ SentByPrincipal /\ Req.ctype = <<JSON>>
PutUpdate ==
    /\ AuthorizedPut /\ Req.ius # <<>>
    /\ SecondsOf(Pre.store[Addressed[1]].lm) <= Req.ius[1]
PutCreate ==
    /\ PutToMissing /\ is_publication(resource_class) /\ Req.ctype = <<JSON>>
    /\ Len(Req.path) = 4 /\ Req.path[4] \in WordStrings
    /\ \E k \in DOMAIN users : SentBy(k) /\ users[k].admin
\* C18: an operation that applies a client payload answers a malformed or
\* invalid payload with 422, persists no instance and changes no field of
\* an existing instance.
C18_BadPayloadIs422 ==
    ((PostCreate \/ PutUpdate \/ PutCreate) /\ (~Req.body.json \/ ~Req.body.valid))
        => (Resp.status = 422 /\ world.store = Pre.store)

\* C19: every response has a status of the documented set; no request ends
\* in an unhandled fault.
DocumentedStatuses == {200, 201, 204, 304, 400, 401, 404, 405, 406, 409, 412, 415, 422}
C19_StatusIsDocumented ==
    Served => Resp.status \in DocumentedStatuses

\* The resource a GET addresses and the requester may read: <<>> or <<its
\* last_modified>>.  The class URL of a publication class addresses the
\* Catalog entity, which Catalog.get makes when it is missing.
ReadableTarget ==
    IF Len(Req.path) = 3 /\ Req.path[3] = url_name(resource_class)
    THEN IF ~is_publication(resource_class) THEN <<>>
         ELSE IF Pre.catalog = <<>> THEN <<now>> ELSE <<Pre.catalog[1].lm>>
    ELSE IF Addressed = <<>> THEN <<>>
    ELSE IF is_publication(resource_class)
              \/ \E k \in DOMAIN users : SentBy(k) /\ MayWrite(k, Pre.store[Addressed[1]])
         THEN <<Pre.store[Addressed[1]].lm>>
         ELSE <<>>
\* C20: a GET with If-Modified-Since is answered with 304 and no body
\* exactly when the addressed resource exists, the requester may read it and
\* the second of its last-modified is not after the header; with a header
\* one hour ahead a readable resource always yields 304.
C20_ConditionalGet ==
    (Served /\ Req.method = "GET" /\ Req.ims # <<>>) =>
        /\ (Resp.status = 304) <=> (ReadableTarget # <<>> /\ SecondsOf(ReadableTarget[1]) <= Req.ims[1])
        /\ Resp.status = 304 => (Resp.body = <<>> /\ world.store = Pre.store)
        /\ (ReadableTarget # <<>> /\ Req.ims = <<HourAhead>>) => Resp.status = 304
\* An instance modified in the middle of a second is not modified since the
\* start of that second.
C20_Witness ==
    /\ Served /\ Req.method = "GET" /\ Addressed # <<>>
    /\ Pre.store[Addressed[1]].lm % TicksPerSec # 0
    /\ Req.ims = <<SecondsOf(Pre.store[Addressed[1]].lm)>>
    /\ Req.accept = <<JSON>>
    /\ Resp.status = 304

\* C21 (as claimed): an anonymous GET of an existing instance of a
\* publication class is answered with 200 and the serialized instance.
AnonymousGet ==
    /\ Served
    /\ Req.method = "GET"
    /\ Req.auth = <<>>
    /\ is_publication(resource_class)
    /\ Addressed # <<>>
C21_AnonymousGetIs200 ==
    AnonymousGet =>
        /\ Resp.status = 200
        /\ Resp.body = <<serialization_of_type(Addressed[1], Pre.store[Addressed[1]])>>
\* The request names, in Accept, a type the class writes.
AcceptsWritableType == Req.accept = <<JSON>>
\* The request has no If-Modified-Since, or one that lies before the second
\* in which the instance was last modified.
ModifiedSince(entity) == Req.ims = <<>> \/ Req.ims[1] < SecondsOf(entity.lm)
\* C21 (amended): an anonymous GET of an existing instance of a publication
\* class is answered with 200 and the serialized instance when its Accept
\* header names a type the class writes and it carries no If-Modified-Since
\* at or after the last modification; without such an Accept header it is
\* answered with 406, and with such an If-Modified-Since with 304.
C21_AnonymousGetNegotiated ==
    AnonymousGet =>
        LET entity == Pre.store[Addressed[1]] IN
        /\ (AcceptsWritableType /\ ModifiedSince(entity)) =>
               /\ Resp.status = 200
               /\ Resp.body = <<serialization_of_type(Addressed[1], entity)>>
               /\ world = Pre
        /\ ~ModifiedSince(entity) => Resp.status = 304
        /\ (ModifiedSince(entity) /\ ~AcceptsWritableType) => Resp.status = 406
\* An anonymous GET that is answered with the instance.
C21_Witness ==
    /\ AnonymousGet
    /\ AcceptsWritableType
    /\ Req.ims # <<>>
    /\ Resp.status = 200
    /\ Resp.body = <<[id |-> "a", content |-> <<"v2">>]>>

\* C22: a DELETE of an authenticated principal who may write the instance
\* removes the instance, leaves the catalog of a publication class
\* invalidated, and is answered with 204; a DELETE of an authenticated
\* principal for a target that does not exist is answered with 404 and
\* changes nothing.
Invalidated(w) == w.catalog # <<>> /\ w.catalog[1].catalog = <<>>
\* The request carries the header of principal k and authenticate accepted
\* it: the request was not answered with the challenge.
AuthenticatedAs(k) == SentBy(k) /\ ~IsChallenge
C22_DeleteRemovesOrIsNotFound ==
    \A k \in DOMAIN users :
        (Served /\ Req.method = "DELETE" /\ AuthenticatedAs(k)) =>
            /\ (Addressed # <<>> /\ MayWrite(k, Pre.store[Addressed[1]])) =>
                   /\ Resp.status = 204
                   /\ world.store = [i \in DOMAIN Pre.store \ {Addressed[1]} |-> Pre.store[i]]
                   /\ is_publication(resource_class) => Invalidated(world)
                   /\ world.nextId = Pre.nextId
            /\ Addressed = <<>> => (Resp.status = 404 /\ world = Pre)
\* The administrator deletes a publication whose catalog held a listing.
C22_Witness ==
    /\ Served /\ Req.method = "DELETE" /\ SentBy(1)
    /\ is_publication(resource_class)
    /\ Addressed # <<>>
    /\ Pre.catalog # <<>> /\ Pre.catalog[1].catalog # <<>>
    /\ Resp.status = 204
    /\ world.store = <<>>
\* An owner deletes a note, and a DELETE finds no target.
C22_WitnessOwner ==
    /\ Served /\ Req.method = "DELETE" /\ SentBy(2)
    /\ ~is_publication(resource_class)
    /\ Addressed # <<>>
    /\ Resp.status = 204

\* A PUT of a write-authorized principal to an existing instance that passes
\* the precondition and carries a dictionary in which update_with_dictionary
\* finds nothing to change.
NoChangePut ==
    /\ AuthorizedPut
    /\ put_precondition(Pre.store[Addressed[1]], Req.ius) = 200
    /\ Req.body.json
    /\ ~update_with_dictionary(Pre.store[Addressed[1]], Req.body).raised
    /\ ~update_with_dictionary(Pre.store[Addressed[1]], Req.body).changes
\* C37: a PUT to an existing resource whose payload changes no field leaves
\* the stored resource, its last-modified timestamp and the catalog of the
\* class unchanged, and is answered with 200, the Last-Modified of the
\* instance and its current serialization.
C37_NoChangePutLeavesAllUnchanged ==
    NoChangePut
        => /\ world = Pre
           /\ Resp.status = 200
           /\ Resp.lastmod = <<last_modified_http(Pre.store[Addressed[1]])>>
           /\ Resp.body = <<serialization_of_type(Addressed[1], Pre.store[Addressed[1]])>>
\* Such a PUT has been answered, at a later instant than the last write of
\* the instance, while the class has a catalog in the cache.
C37_Witness ==
    /\ NoChangePut /\ Resp.status = 200
    /\ Pre.store[Addressed[1]].lm < now
    /\ Pre.store[Addressed[1]].content # <<>>
    /\ is_publication(resource_class) =>
          (Pre.catalog # <<>> /\ Pre.catalog[1].catalog # <<>>)

\* The handler went past its authentication gate: it did not answer with
\* the challenge of require_authentication.
PastGate == Served /\ ~IsChallenge
\* The Authorization header of the request passes every test of
\* authenticate for principal k: the keys are there, the opaque is current,
\* the username is that of k, the uri is the request path and the response
\* is the digest made with the secret of k.
FullyAuthenticated(k) ==
    /\ Req.auth # <<>>
    /\ LET params == dict_from_paramslist(Req.auth[1]) IN
       /\ AuthKeys \subseteq DOMAIN params
       /\ opaque_is_current(params.opaque, params.nonce, now)
       /\ User_valid_identifier(params.username)
       /\ int(params.username) = k
       /\ params.uri = Req.path
       /\ params.response = response_of(users[k].ha1, params.nonce, params.nc, params.cnonce,
                                        params.qop, ha2_of(Req.method, params.uri))
\* the instances that carry another owner than before the request
Stamped ==
    {id \in DOMAIN world.store :
        /\ world.store[id].owner # <<>>
        /\ id \in DOMAIN Pre.store => Pre.store[id].owner # world.store[id].owner}
\* C35: a handler that goes past its authentication gate with a principal
\* in self.user has fully authenticated that principal in this request; a
\* handler that failed to authenticate answers with the challenge, changes
\* nothing, and no instance is stamped with an owner other than the
\* authenticated principal.
C35_PrincipalPastGateIsAuthenticated ==
    /\ (PastGate /\ handler[1].user # <<>>) => FullyAuthenticated(handler[1].user[1])
    /\ (Served /\ IsChallenge) => world = Pre
    /\ Served => \A id \in Stamped :
                    /\ world.store[id].owner = handler[1].user
                    /\ FullyAuthenticated(handler[1].user[1])
\* A POST of principal 2 has created an instance stamped with owner 2.
C35_Witness ==
    /\ PastGate /\ Req.method = "POST" /\ Resp.status = 201
    /\ handler[1].user = <<2>>
    /\ Stamped # {}
\* A failed authentication has looked a principal up (the response value
\* was wrong) and the handler answered with the challenge.
C35_WitnessLookedUp ==
    /\ Served /\ IsChallenge /\ Req.method = "POST"
    /\ handler[1].user = <<2>>
    /\ ~FullyAuthenticated(2)

(***************************************************************************)
(* SpecConc: handlers of the class "Pub" that run at the same time.  The   *)
(* requests are those of an administrator, with a Content-Type the class   *)
(* reads and an Accept the class writes.  A handler is cut at its accesses *)
(* to the datastore: each step below is one get, put, delete or query      *)
(* together with the local computation that follows it.  The client of a   *)
(* process sends, with a PUT, the Last-Modified it received from its last  *)
(* GET of the instance.                                                    *)
(*                                                                         *)
(* A process is [pc, kind, res, ius, cat, arr, status, out, seen, based,   *)
(* clean]: res and cat are the instance and the Catalog entity the handler *)
(* has fetched (<<>> is None), arr the array it has built, out the listing *)
(* it returns; seen is what the client saw in its last GET, <<>> or        *)
(* <<[lm, ver]>>; based is the version its PUT was made from; clean says   *)
(* that no write has run since the catalog read began.                     *)
(***************************************************************************)
Procs == 1..NumProcs
ConcId == "a"
ContentOf(p) == IF p = 1 THEN <<"v1">> ELSE <<"v2">>
IdleProc == [pc |-> "idle", kind |-> "none", res |-> <<>>, ius |-> <<>>, cat |-> <<>>, arr |-> <<>>,
             status |-> 0, out |-> <<>>, seen |-> <<>>, based |-> -1, clean |-> FALSE]
InFlight(p) == procs[p].pc \notin {"idle", "done"}

ConcInit ==
    /\ now = 0
    /\ users = DeployedUsers
    /\ RestIdle
    /\ AuthIdle
    /\ SideIdle
    /\ MoreIdle
    /\ procs = [p \in Procs |-> IdleProc]
    /\ ver = 0

\* procs after a step of writer p that leaves it as next
AfterWrite(p, next) ==
    [q \in Procs |-> IF q = p THEN next ELSE [procs[q] EXCEPT !.clean = FALSE]]
\* procs after a step of reader p that leaves it as next
AfterRead(p, next) == [procs EXCEPT ![p] = next]
Stored(entity) == [world EXCEPT !.store = [i \in DOMAIN world.store \cup {ConcId} |->
                                            IF i = ConcId THEN entity ELSE world.store[i]]]

ConcTick ==
    /\ now < ConcMaxNow
    /\ now' = now + 1
    /\ UNCHANGED <<users, restVars, concVars, authVars, sideVars, moreVars>>

\* RestHandler.get of the instance: one get_by_id, then write_output
ConcGet(p) ==
    /\ procs[p].pc = "idle"
    /\ procs' = AfterRead(p,
          IF ConcId \in DOMAIN world.store
          THEN [IdleProc EXCEPT !.pc = "done", !.kind = "get", !.status = 200,
                                !.seen = <<[lm |-> last_modified_http(world.store[ConcId]), ver |-> ver]>>]
          ELSE [IdleProc EXCEPT !.pc = "done", !.kind = "get", !.status = 404])
    /\ UNCHANGED <<now, users, restVars, ver, authVars, sideVars, moreVars>>

\* RestHandler.put, line 250: self.resource is fetched
PutFetch(p) ==
    /\ procs[p].pc = "idle"
    /\ ver < MaxWrites
    /\ LET P == procs[p]
           ius == IF P.seen = <<>> THEN <<>> ELSE <<P.seen[1].lm>>
           based == IF P.seen = <<>> THEN -1 ELSE P.seen[1].ver
       IN procs' = AfterWrite(p,
            IF ConcId \in DOMAIN world.store
            THEN [P EXCEPT !.pc = "put_check", !.kind = "put", !.res = <<world.store[ConcId]>>,
                           !.ius = ius, !.based = based, !.status = 0]
            ELSE [P EXCEPT !.pc = "new_catalog_get", !.kind = "put", !.res = <<>>,
                           !.ius = ius, !.based = -1, !.status = 0])
    /\ UNCHANGED <<now, users, restVars, ver, authVars, sideVars, moreVars>>

\* RestHandler.put, lines 256-265, on the instance fetched; when the
\* preconditions hold, update_with_string puts the instance
PutCheck(p) ==
    /\ procs[p].pc = "put_check"
    /\ LET P == procs[p]
           st == put_precondition(P.res[1], P.ius)
       IN IF st # 200
          THEN /\ procs' = AfterWrite(p, [P EXCEPT !.pc = "done", !.status = st])
               /\ UNCHANGED <<world, ver>>
          ELSE /\ world' = Stored([P.res[1] EXCEPT !.content = ContentOf(p), !.lm = now])
               /\ ver' = ver + 1
               /\ procs' = AfterWrite(p, [P EXCEPT !.pc = "catalog_get", !.status = 200])
    /\ UNCHANGED <<now, users, resource_class, handler, run, authVars, sideVars, moreVars>>

\* Catalog.get in PublicResource.invalidate_catalog: the entity is fetched,
\* or made and stored
CatalogGet(p) ==
    /\ procs[p].pc \in {"new_catalog_get", "catalog_get"}
    /\ world' = Catalog_get(world, now)
    /\ procs' = AfterWrite(p, [procs[p] EXCEPT
                   !.pc = IF @ = "catalog_get" THEN "catalog_invalidate" ELSE "new_catalog_invalidate",
                   !.cat = Catalog_get(world, now).catalog])
    /\ UNCHANGED <<now, users, resource_class, handler, run, ver, authVars, sideVars, moreVars>>

\* Catalog.invalidate on the entity fetched: it is put when it holds a listing
CatalogInvalidate(p) ==
    /\ procs[p].pc \in {"new_catalog_invalidate", "catalog_invalidate"}
    /\ world' = IF Catalog_miss(procs[p].cat[1]) THEN world
                ELSE [world EXCEPT !.catalog = <<[catalog |-> <<>>, lm |-> now]>>]
    /\ procs' = AfterWrite(p, [procs[p] EXCEPT
                   !.pc = IF @ = "catalog_invalidate" THEN "done" ELSE "new_put"])
    /\ UNCHANGED <<now, users, resource_class, handler, run, ver, authVars, sideVars, moreVars>>

\* RestHandler.put, line 279: update_with_string puts the new instance
NewPut(p) ==
    /\ procs[p].pc = "new_put"
    /\ world' = Stored([BlankEntity EXCEPT !.content = ContentOf(p), !.lm = now])
    /\ ver' = ver + 1
    /\ procs' = AfterWrite(p, [procs[p] EXCEPT !.pc = "catalog_get", !.status = 201])
    /\ UNCHANGED <<now, users, resource_class, handler, run, authVars, sideVars, moreVars>>

\* RestHandler.delete, line 294: self.resource is fetched
DeleteFetch(p) ==
    /\ procs[p].pc = "idle"
    /\ ver < MaxWrites
    /\ procs' = AfterWrite(p,
          IF ConcId \in DOMAIN world.store
          THEN [procs[p] EXCEPT !.pc = "delete_key", !.kind = "delete", !.status = 0]
          ELSE [procs[p] EXCEPT !.pc = "done", !.kind = "delete", !.status = 404])
    /\ UNCHANGED <<now, users, restVars, ver, authVars, sideVars, moreVars>>

\* Resource.delete: self.key.delete()
DeleteKey(p) ==
    /\ procs[p].pc = "delete_key"
    /\ world' = [world EXCEPT !.store = [i \in DOMAIN world.store \ {ConcId} |-> world.store[i]]]
    /\ ver' = ver + 1
    /\ procs' = AfterWrite(p, [procs[p] EXCEPT !.pc = "catalog_get", !.status = 204])
    /\ UNCHANGED <<now, users, resource_class, handler, run, authVars, sideVars, moreVars>>

\* RestHandler.get of the class, line 209: Catalog.get; a listing held by
\* the entity fetched is returned as it is
ReadCatalogGet(p) ==
    /\ procs[p].pc = "idle"
    /\ world' = Catalog_get(world, now)
    /\ LET cat == Catalog_get(world, now).catalog
           quiet == \A q \in Procs \ {p} : ~InFlight(q)
       IN procs' = AfterRead(p,
            IF Catalog_miss(cat[1])
            THEN [procs[p] EXCEPT !.pc = "read_query", !.kind = "read", !.cat = cat, !.status = 0,
                                  !.clean = quiet]
            ELSE [procs[p] EXCEPT !.pc = "done", !.kind = "read", !.cat = cat, !.status = 200,
                                  !.out = cat[1].catalog, !.clean = quiet])
    /\ UNCHANGED <<now, users, resource_class, handler, run, ver, authVars, sideVars, moreVars>>

\* Catalog.serialization_of_type, lines 256-258: the query and the array
ReadQuery(p) ==
    /\ procs[p].pc = "read_query"
    /\ procs' = AfterRead(p, [procs[p] EXCEPT !.pc = "read_put", !.arr = CatalogArray(world.store)])
    /\ UNCHANGED <<now, users, restVars, ver, authVars, sideVars, moreVars>>

\* Catalog.serialization_of_type, lines 259-261: the listing is put and returned
ReadPut(p) ==
    /\ procs[p].pc = "read_put"
    /\ world' = [world EXCEPT !.catalog = <<[catalog |-> <<procs[p].arr>>, lm |-> now]>>]
    /\ procs' = AfterRead(p, [procs[p] EXCEPT !.pc = "done", !.status = 200, !.out = <<procs[p].arr>>])
    /\ UNCHANGED <<now, users, resource_class, handler, run, ver, authVars, sideVars, moreVars>>

\* The response is sent; the client keeps what it saw.
ConcFinish(p) ==
    /\ procs[p].pc = "done"
    /\ procs' = [procs EXCEPT ![p] = [IdleProc EXCEPT !.seen = procs[p].seen]]
    /\ UNCHANGED <<now, users, restVars, ver, authVars, sideVars, moreVars>>

ConcNext ==
    \/ ConcTick
    \/ \E p \in Procs :
        \/ ConcGet(p)
        \/ PutFetch(p)
        \/ PutCheck(p)
        \/ CatalogGet(p)
        \/ CatalogInvalidate(p)
        \/ NewPut(p)
        \/ DeleteFetch(p)
        \/ DeleteKey(p)
        \/ ReadCatalogGet(p)
        \/ ReadQuery(p)
        \/ ReadPut(p)
        \/ ConcFinish(p)

SpecConc == ConcInit /\ [][ConcNext]_vars

(***************************************************************************)
(* Claims on handlers that run at the same time (SpecConc).                *)
(***************************************************************************)
Quiescent == \A p \in Procs : ~InFlight(p)
\* the PUT of p has been applied: it has put the instance
PutApplied(p) == procs[p].kind = "put" /\ procs[p].status = 200 /\ procs[p].based >= 0

\* C2: when two writers have read the same version of a resource and each
\* sends a PUT with the last-modified of that version as If-Unmodified-Since,
\* at most one of the two PUTs is applied.
C2_NoLostUpdate ==
    \A p, q \in Procs :
        (p # q /\ PutApplied(p) /\ PutApplied(q)) => procs[p].based # procs[q].based

\* C5: the stored catalog serialization of the class is empty, or it is the
\* serialization of the current live instances with their current
\* last-modified values (stated for the states in which no handler is under
\* way, whatever has interleaved before).
C5_CatalogEmptyOrCurrent ==
    Quiescent =>
        \/ world.catalog = <<>>
        \/ world.catalog[1].catalog = <<>>
        \/ world.catalog[1].catalog[1] = CatalogArray(world.store)

\* C6: a catalog read that starts after a create, update or delete has
\* completed returns a listing that reflects it: a read during which no
\* write ran, and before which every write had completed, returns the
\* listing of the instances in the store.
C6_ReadAfterWriteIsCurrent ==
    \A p \in Procs :
        (procs[p].pc = "done" /\ procs[p].kind = "read" /\ procs[p].clean)
            => procs[p].out[1] = CatalogArray(world.store)

(***************************************************************************)
(* SpecAuth: one challenge, answered by a client, whose Authorization      *)
(* header is then presented again and again while the clock runs.  The     *)
(* clock visits the first and the last second of every minute.             *)
(***************************************************************************)
Nonces == {"17", "42"}
\* The 12-minute bucket that contains instant t, counted from the epoch.
TimeBucket(t) == MinutesOf(t) \div BucketMinutes
AuthMethod == "PUT"
\* request.path, as the list of its segments: path.split('/')
AuthPath == <<"", "api", "pub", "a">>
AuthClockStart == StartMinute * 60 * TicksPerSec
AuthClockEnd == (StartMinute + SpanMinutes) * 60 * TicksPerSec

AuthInit ==
    /\ now = AuthClockStart
    /\ users = DeployedUsers
    /\ RestIdle
    /\ ConcIdle
    /\ SideIdle
    /\ MoreIdle
    /\ hdr = <<>>
    /\ issuedAt = 0
    /\ lastAuth = <<>>
    /\ accepts = 0
    /\ acceptKeys = {}

\* The clock moves on to the next instant it visits.
AdvanceAuth ==
    LET step == IF SecondsOf(now) % 60 = 0 THEN 59 ELSE 1 IN
    /\ now + step * TicksPerSec <= AuthClockEnd
    /\ now' = now + step * TicksPerSec
    /\ lastAuth' = <<>>
    /\ UNCHANGED <<users, restVars, concVars, hdr, issuedAt, accepts, acceptKeys, sideVars, moreVars>>

\* require_authentication answers a request with a challenge, and the client
\* builds its Authorization header from it (auth_header).
Challenge(nonce, key) ==
    /\ hdr = <<>>
    /\ hdr' = <<auth_header(AuthMethod, AuthPath, challenge_params(nonce, now), key, users[key].ha1)>>
    /\ issuedAt' = now
    /\ UNCHANGED <<now, users, restVars, concVars, lastAuth, accepts, acceptKeys, sideVars, moreVars>>

\* A request carrying the header is authenticated at the current instant.
Present ==
    /\ hdr # <<>>
    /\ LET res == authenticate(hdr, AuthMethod, AuthPath, now, users, <<>>) IN
       /\ lastAuth' = <<res.ok>>
       /\ accepts' = IF res.ok /\ accepts < MaxReplays THEN accepts + 1 ELSE accepts
       /\ acceptKeys' = IF res.ok THEN acceptKeys \cup {TimeBucket(now)} ELSE acceptKeys
    /\ UNCHANGED <<now, users, restVars, concVars, hdr, issuedAt, sideVars, moreVars>>

AuthNext ==
    \/ AdvanceAuth
    \/ \E nonce \in Nonces : Challenge(nonce, 2)
    \/ Present

SpecAuth == AuthInit /\ [][AuthNext]_vars

(***************************************************************************)
(* Claims on the opaque value (SpecAuth).                                  *)
(***************************************************************************)
Age == now - issuedAt
Presented == hdr # <<>> /\ lastAuth # <<>>
Accepted == Presented /\ lastAuth[1]

\* C8: the opaque computed by the challenge at time T is accepted by the
\* opaque check at time T and at time T + 11 minutes 59 seconds.
C8_AcceptedAtIssueAndAfter1159 ==
    (Presented /\ Age \in {0, (11 * 60 + 59) * TicksPerSec}) => lastAuth[1]

\* C9: an opaque is accepted at time t only if it was computed for the
\* 12-minute bucket that contains t or for the bucket just before it, so an
\* opaque computed at T is never accepted at or after T + 24 minutes.
C9_AcceptedOnlyInOwnOrNextBucket ==
    /\ Accepted => TimeBucket(issuedAt) \in {TimeBucket(now), TimeBucket(now) - 1}
    /\ (Presented /\ Age >= timedelta_minutes(2 * BucketMinutes)) => ~lastAuth[1]
\* The header is accepted in the bucket after the one of its opaque.
C9_Witness == Accepted /\ TimeBucket(issuedAt) = TimeBucket(now) - 1
\* The header is refused 25 minutes after the challenge.
C9_WitnessRefusedAt25 == Presented /\ ~lastAuth[1] /\ Age = timedelta_minutes(25)

\* C10 (as claimed): within the validity window of its opaque, one and the
\* same Authorization header is accepted at most twice.
C10_AcceptedAtMostTwice == accepts <= 2
\* C10 (amended): the same header is accepted every time it is presented in
\* the bucket of its opaque, without a limit on the number of acceptances;
\* all its acceptances lie in at most two 12-minute buckets.
C10_AcceptedInAtMostTwoBuckets ==
    /\ Cardinality(acceptKeys) <= 2
    /\ (Presented /\ TimeBucket(now) = TimeBucket(issuedAt)) => lastAuth[1]
\* The header has been accepted three times, in two buckets.
C10_Witness == accepts = 3 /\ Cardinality(acceptKeys) = 2 /\ Accepted

(***************************************************************************)
(* SpecLocator: the Resource Locator on its own.  A handler is made for a  *)
(* request path and parse_request_path classifies the path.                *)
(***************************************************************************)
MaxSegments == 5    \* SpecLocator: the longest path, in segments
\* the segments after the leading '/': names, identifiers the grammar of one
\* class, of both or of no class takes, and the empty segment
Segments == {"", "api", "pub", "note", "a", "1", "-", LongWord}
\* request.path.split('/') for a path of n segments after the leading '/':
\* a path starts with '/', so the first segment is ''
PathsAfterSlash(n) == [1..n -> Segments]

LocatorInit ==
    /\ now = 0
    /\ users = DeployedUsers
    /\ RestIdle
    /\ ConcIdle
    /\ AuthIdle
    /\ SideIdle
    /\ MoreIdle

\* The handler of a request reads valid_class_url and valid_resource_id.
Locate(path, cls) ==
    /\ located = <<>>
    /\ located' = <<[path |-> path, cls |-> cls, parsed |-> parse_request_path(path, cls)]>>
    /\ UNCHANGED <<now, users, restVars, concVars, authVars, replay, importer, feed, moreVars>>

LocatorNext ==
    /\ located = <<>>
    /\ \E n \in 0..(MaxSegments - 1), cls \in Classes :
          \E rest \in PathsAfterSlash(n) : Locate(<<"">> \o rest, cls)

SpecLocator == LocatorInit /\ [][LocatorNext]_vars

\* the identifier grammar of the class: identifier_regex
Grammatical(cls, identifier) ==
    IF is_publication(cls) THEN identifier \in WordStrings ELSE identifier \in DigitStrings
\* the path names the class in its third segment
NamesClass(path, cls) == Len(path) >= 3 /\ path[3] = url_name(cls)

\* C23: parse_request_path classifies every path as exactly one of a
\* class-level request, an instance request or invalid.  Class-level is a
\* path of exactly 3 segments whose third is the URL name of the class;
\* an instance request is one of 4 segments whose third is the URL name and
\* whose fourth passes the identifier grammar of the class; every other
\* path (fewer than 3 segments, another third segment, a fourth segment
\* that fails the grammar, more than 4 segments) is invalid: both flags
\* false.  The two flags are never both true.
C23_PathIsClassInstanceOrInvalid ==
    located # <<>> =>
        LET path == located[1].path
            cls == located[1].cls
            parsed == located[1].parsed
        IN
        /\ parsed.valid_class_url <=> (NamesClass(path, cls) /\ Len(path) = 3)
        /\ parsed.valid_resource_id <=>
              (NamesClass(path, cls) /\ Len(path) = 4 /\ Grammatical(cls, path[4]))
        /\ ~(parsed.valid_class_url /\ parsed.valid_resource_id)
        /\ parsed.resource_id # <<>> <=> parsed.valid_resource_id
\* A path of five segments, with a good identifier, has been found invalid.
C23_Witness ==
    /\ located # <<>>
    /\ located[1].path = <<"", "api", "pub", "a", "1">>
    /\ located[1].cls = "Pub"
    /\ ~located[1].parsed.valid_class_url /\ ~located[1].parsed.valid_resource_id
\* An instance request and a class-level request have been recognised.
C23_WitnessInstance ==
    /\ located # <<>>
    /\ located[1].path = <<"", "api", "note", "1">>
    /\ located[1].parsed.valid_resource_id /\ located[1].parsed.resource_id = <<1>>
C23_WitnessClass ==
    /\ located # <<>>
    /\ located[1].path = <<"", "api", "note">>
    /\ located[1].cls = "Note"
    /\ located[1].parsed.valid_class_url

(***************************************************************************)
(* SpecBind: a client answers the challenge of one request, for method M   *)
(* and uri U, and the header is presented with a request of method M' and  *)
(* path P'.  The realm and the uri written in the header may have been     *)
(* replaced after the response was computed.                               *)
(***************************************************************************)
BindMethods == {"GET", "PUT", "DELETE", "POST"}
\* /api/note/1, the same with a trailing '/', another instance, the class
\* URL and a path the pattern of dict_from_paramslist does not capture whole
BindPaths ==
    {<<"", "api", "note", "1">>, <<"", "api", "note", "1", "">>, <<"", "api", "note", "2">>,
     <<"", "api", "note">>, <<"", "api", "note", "-">>}
\* the realm of the deployment, another realm, and the realm of the
\* deployment followed by '-x'
SuffixedRealm == "tests@firstflamingo.com-x"
BindRealms == {realm, "other@example.com", SuffixedRealm}

BindInit ==
    /\ now = 0
    /\ users = DeployedUsers
    /\ RestIdle
    /\ ConcIdle
    /\ AuthIdle
    /\ SideIdle
    /\ MoreIdle

\* The header: auth_header for (method, uri), then the realm and the uri
\* parameter as they are sent.
SentHeader(method, uri, key, sentRealm, sentUri) ==
    [auth_header(method, uri, challenge_params("17", now), key, users[key].ha1)
        EXCEPT !.realm = sentRealm, !.uri = sentUri]

\* A request (method, path) carrying the header is authenticated.
Replay(made, req, header) ==
    /\ replay = <<>>
    /\ replay' = <<[made |-> made, req |-> req, header |-> header,
                    ok |-> authenticate(<<header>>, req.method, req.path, now, users, <<>>).ok]>>
    /\ UNCHANGED <<now, users, restVars, concVars, authVars, located, importer, feed, moreVars>>

BindNext ==
    /\ replay = <<>>
    /\ \E m1 \in BindMethods, u1 \in BindPaths, m2 \in BindMethods, p2 \in BindPaths, r \in BindRealms :
          \E sentUri \in {u1, p2} :
              Replay([method |-> m1, uri |-> u1], [method |-> m2, path |-> p2],
                     SentHeader(m1, u1, 2, r, sentUri))

SpecBind == BindInit /\ [][BindNext]_vars

\* C27: a header whose response was computed for method M and uri U is
\* rejected on every request whose method differs from M or whose path
\* differs from U, and a header whose realm differs from the realm of the
\* deployment is rejected.
C27_CredentialsAreBound ==
    replay # <<>> =>
        LET made == replay[1].made
            req == replay[1].req
        IN
        /\ (made.method # req.method \/ made.uri # req.path) => ~replay[1].ok
        /\ replay[1].header.realm # realm => ~replay[1].ok
\* The part of C27 on method and path alone.
MethodAndPathAreBound ==
    replay # <<>> =>
        ((replay[1].made.method # replay[1].req.method \/ replay[1].made.uri # replay[1].req.path)
            => ~replay[1].ok)
\* A header made for the request it comes with, in the realm of the
\* deployment, has been accepted.
BindAccepted ==
    /\ replay # <<>>
    /\ replay[1].ok
    /\ replay[1].header.realm = realm
    /\ replay[1].made = [method |-> "PUT", uri |-> <<"", "api", "note", "1">>]

(***************************************************************************)
(* markup.py: XMLImporter.  The importer is made to be subclassed; the     *)
(* model fixes a subclass whose objects are containers of the imported     *)
(* data.  An object holds one value, "" when the container is empty, and   *)
(* like every Python container it is false when it is empty.  The objects  *)
(* live on a heap, oid -> value; the dictionaries old_objects,             *)
(* new_objects and updated_objects map keys to oids, so that two entries   *)
(* can hold one and the same object.  None is <<>>.  The importer is the   *)
(* record [old_objects, updated_objects, new_objects, changes, heap,       *)
(* nextOid, created, applied, saved, persisted]: created and applied count *)
(* the calls of create_new_object (per key) and of update_object, saved    *)
(* the calls of save_objects, persisted is what save_objects stored.       *)
(***************************************************************************)
MaxRecords == 3     \* SpecImport: the closing tags of a feed
ImportKeys == {"A", "B", "C"}
\* the values an object holds: nothing, or the data of a record
Values == {"", "x"}
\* the oid of the object the store holds for a key
KeyOid(key) == CASE key = "A" -> 1 [] key = "B" -> 2 [] key = "C" -> 3
FirstNewOid == 4
\* active_xml_tags() of the subclass, and the tags of a feed
active_xml_tags == {"item"}
Tags == {"item", "field"}

\* the truth value of current_object: None and an empty container are false
bool(heap, ref) == ref # <<>> /\ heap[ref[1]] # ""
\* dictionary.get(key)
dict_get(dictionary, key) == IF key \in DOMAIN dictionary THEN <<dictionary[key]>> ELSE <<>>
\* dictionary[key] = value
dict_set(dictionary, key, value) ==
    [k \in DOMAIN dictionary \cup {key} |-> IF k = key THEN value ELSE dictionary[k]]
\* del dictionary[key]
dict_del(dictionary, key) == [k \in DOMAIN dictionary \ {key} |-> dictionary[k]]

\* the class attributes of XMLImporter, and the counters of the subclass
XMLImporter ==
    [old_objects |-> <<>>, updated_objects |-> <<>>, new_objects |-> <<>>, changes |-> FALSE,
     heap |-> <<>>, nextOid |-> FirstNewOid, created |-> [k \in ImportKeys |-> 0], applied |-> 0,
     saved |-> 0, persisted |-> <<>>]

\* existing_objects_dictionary() of the subclass: the objects of the store
existing_objects_dictionary(existing) == [k \in DOMAIN existing |-> KeyOid(k)]
\* XMLImporter.startDocument; existing is the population of the store,
\* key -> value
startDocument(imp, existing) ==
    [imp EXCEPT !.heap = [o \in {KeyOid(k) : k \in DOMAIN existing} |->
                             existing[CHOOSE k \in DOMAIN existing : KeyOid(k) = o]],
                !.old_objects = existing_objects_dictionary(existing),
                !.updated_objects = <<>>,
                !.new_objects = <<>>]

\* XMLImporter.pop_from_old_objects: [imp, current_object]
pop_from_old_objects(imp, key) ==
    IF bool(imp.heap, dict_get(imp.old_objects, key))
    THEN [imp |-> [imp EXCEPT !.old_objects = dict_del(@, key)],
          current_object |-> dict_get(imp.old_objects, key)]
    ELSE [imp |-> imp, current_object |-> dict_get(imp.new_objects, key)]

\* create_new_object(key) of the subclass: a new, empty object, whose oid is
\* the nextOid of before the call
create_new_object(imp, key) ==
    [imp EXCEPT !.heap = dict_set(@, imp.nextOid, ""),
                !.nextOid = @ + 1,
                !.created[key] = @ + 1]
\* update_object of the subclass: the object takes the value of the record,
\* and self.changes is set when that changes it
update_object(imp, current_object, value) ==
    IF imp.heap[current_object] # value
    THEN [imp EXCEPT !.heap[current_object] = value, !.changes = TRUE, !.applied = @ + 1]
    ELSE [imp EXCEPT !.applied = @ + 1]
\* save_objects of the subclass: stores the three populations
save_objects(imp) ==
    [imp EXCEPT !.saved = @ + 1,
                !.persisted = <<[old_objects |-> imp.old_objects, new_objects |-> imp.new_objects,
                                 updated_objects |-> imp.updated_objects, heap |-> imp.heap]>>]

\* A reconciliation that stores the populations after every record.
reconcile_and_save(imp, key, current_object, value) ==
    LET applied == update_object([imp EXCEPT !.changes = FALSE], current_object, value) IN
    save_objects([applied EXCEPT !.new_objects = dict_set(@, key, current_object),
                                 !.updated_objects = IF applied.changes
                                                     THEN dict_set(@, key, current_object) ELSE @])
\* XMLImporter.endElement, lines 148-152, on the object current_object
reconcile(imp, key, current_object, value) ==
    LET applied == update_object([imp EXCEPT !.changes = FALSE], current_object, value) IN
    [applied EXCEPT !.new_objects = dict_set(@, key, current_object),
                    !.updated_objects = IF applied.changes
                                        THEN dict_set(@, key, current_object) ELSE @]
\* XMLImporter.endElement, lines 145-152, on what pop_from_old_objects returned
reuse_or_create(popped, key, value) ==
    IF bool(popped.imp.heap, popped.current_object)
    THEN reconcile(popped.imp, key, popped.current_object[1], value)
    ELSE reconcile(create_new_object(popped.imp, key), key, popped.imp.nextOid, value)

\* An endElement that files a record without key under the key "A".
endElement_keyless(imp, name, key, value) ==
    IF name \notin active_xml_tags THEN imp
    ELSE IF key = <<>> THEN reuse_or_create(pop_from_old_objects(imp, "A"), "A", value)
    ELSE reuse_or_create(pop_from_old_objects(imp, key[1]), key[1], value)
\* XMLImporter.endElement.  key is what key_for_current_object() returns,
\* <<>> or <<the key>>, and value what the hooks of the subclass read from
\* the element; end_xml_element of the subclass changes nothing.
endElement(imp, name, key, value) ==
    IF name \notin active_xml_tags THEN imp
    ELSE IF key = <<>> THEN imp
    ELSE reuse_or_create(pop_from_old_objects(imp, key[1]), key[1], value)

\* XMLImporter.endDocument
endDocument(imp) == save_objects(imp)

(***************************************************************************)
(* SpecImport: one pass of the importer, driven by the xml.sax parser:     *)
(* startDocument, the elements of the feed one by one, and endDocument;    *)
(* on a malformed tag stream the parser raises SAXParseException instead   *)
(* and calls nothing more.  feed is [phase, pre, keys, reported, count,    *)
(* last]: the keys of the store before the pass, the keys of the           *)
(* recognised records delivered so far, the keys for which update_object   *)
(* set self.changes, the number of closing tags, and the last closing tag  *)
(* with the importer as it was before it.                                  *)
(***************************************************************************)
\* the populations of the store: key -> value, for some of the keys
Populations == UNION {[keys -> Values] : keys \in SUBSET ImportKeys}
\* the closing tags: a record with or without key, or an element inside one
Elements ==
    {[name |-> "item", key |-> k, value |-> v] : k \in {<<>>} \cup {<<i>> : i \in ImportKeys}, v \in Values}
    \cup {[name |-> "field", key |-> <<>>, value |-> ""]}

ImportInit ==
    /\ now = 0
    /\ users = DeployedUsers
    /\ RestIdle
    /\ ConcIdle
    /\ AuthIdle
    /\ located = <<>>
    /\ replay = <<>>
    /\ importer = XMLImporter
    /\ feed = [phase |-> "new", pre |-> {}, keys |-> {}, reported |-> {}, count |-> 0, last |-> <<>>]
    /\ MoreIdle

\* The parser starts the document.
StartDocument(existing) ==
    /\ feed.phase = "new"
    /\ importer' = startDocument(importer, existing)
    /\ feed' = [feed EXCEPT !.phase = "parsing", !.pre = DOMAIN existing]
    /\ UNCHANGED <<now, users, restVars, concVars, authVars, located, replay, moreVars>>

\* The parser reports a closing tag.
EndElement(e) ==
    /\ feed.phase = "parsing"
    /\ feed.count < MaxRecords
    /\ importer' = endElement(importer, e.name, e.key, e.value)
    /\ feed' = [feed EXCEPT !.count = @ + 1,
                            !.keys = IF e.name \in active_xml_tags /\ e.key # <<>>
                                     THEN @ \cup {e.key[1]} ELSE @,
                            !.reported = IF e.key # <<>> /\ importer'.applied > importer.applied /\ importer'.changes
                                         THEN @ \cup {e.key[1]} ELSE @,
                            !.last = <<[name |-> e.name, key |-> e.key, before |-> importer,
                                        keys |-> feed.keys]>>]
    /\ UNCHANGED <<now, users, restVars, concVars, authVars, located, replay, moreVars>>

\* The parser reaches the end of a well-formed document.
EndDocument ==
    /\ feed.phase = "parsing"
    /\ importer' = endDocument(importer)
    /\ feed' = [feed EXCEPT !.phase = "done", !.last = <<>>]
    /\ UNCHANGED <<now, users, restVars, concVars, authVars, located, replay, moreVars>>

\* The tag stream is malformed: the parser raises and the pass is over.
ParseError ==
    /\ feed.phase = "parsing"
    /\ feed' = [feed EXCEPT !.phase = "aborted", !.last = <<>>]
    /\ UNCHANGED <<now, users, restVars, concVars, authVars, located, replay, importer, moreVars>>

ImportNext ==
    \/ \E existing \in Populations : StartDocument(existing)
    \/ \E e \in Elements : EndElement(e)
    \/ EndDocument
    \/ ParseError

SpecImport == ImportInit /\ [][ImportNext]_vars

(***************************************************************************)
(* Claims on the importer (SpecImport).                                    *)
(***************************************************************************)
Importing == feed # <<>>
PassDone == Importing /\ feed.phase = "done"
\* the key sets of the three mappings
Remaining == DOMAIN importer.old_objects
Result == DOMAIN importer.new_objects
Changed == DOMAIN importer.updated_objects
\* The last closing tag was a record with key k.
LastRecord(k) ==
    /\ Importing
    /\ feed.last # <<>>
    /\ feed.last[1].name \in active_xml_tags
    /\ feed.last[1].key = <<k>>
\* The last closing tag was a recognised tag without key.
LastKeyless ==
    /\ Importing
    /\ feed.last # <<>>
    /\ feed.last[1].name \in active_xml_tags
    /\ feed.last[1].key = <<>>

\* C24: at the end of a pass every key of the store before the pass or of a
\* recognised record of the feed is in exactly one of new_objects and
\* old_objects: the two key sets are disjoint and together they are those
\* keys.
C24_EveryKeyInExactlyOne ==
    PassDone =>
        /\ Result \cap Remaining = {}
        /\ Result \cup Remaining = feed.pre \cup feed.keys

\* C25: at the end of a pass the keys of new_objects are the keys of the
\* recognised records of the feed, and the keys of old_objects are the keys
\* of the store before the pass minus the keys of the feed.
C25_ResultIsFeedRemainingIsRest ==
    PassDone =>
        /\ Result = feed.keys
        /\ Remaining = feed.pre \ feed.keys
\* The feed {A, B} against the store {A, C}, with objects that hold data,
\* has given result {A, B} and remaining {C}.
C25_Example ==
    /\ PassDone
    /\ feed.pre = {"A", "C"} /\ feed.keys = {"A", "B"}
    /\ Result = {"A", "B"} /\ Remaining = {"C"}

\* C26: after every step of a pass updated_objects is a part of new_objects,
\* every key of it is a key of new_objects and holds the same object; and
\* a key is in updated_objects exactly when update_object reported a change
\* for a record of that key.
C26_ChangedIsPartOfResult ==
    Importing =>
        /\ \A k \in Changed : k \in Result /\ importer.updated_objects[k] = importer.new_objects[k]
        /\ Changed = feed.reported
\* The second half of C26 alone.
ChangedIsReported == Importing => (Changed = feed.reported /\ Changed \subseteq Result)

\* C28: a recognised closing tag whose key is None changes nothing: the
\* three mappings and the objects are as before, and neither
\* create_new_object nor update_object is called.
C28_KeylessRecordIsSkipped ==
    LastKeyless => importer = feed.last[1].before
\* A record without key came after a record that had made an object.
C28_Witness ==
    /\ LastKeyless
    /\ feed.last[1].before.created["B"] = 1
    /\ "A" \in Remaining
    /\ importer.applied = 1

\* C29: when a key occurs again in a feed, the record is applied to the
\* object the first record of the key left in new_objects; an object is
\* created at most once per key and pass, and only for a key that is in
\* neither old_objects nor new_objects.
C29_DuplicatesMergeOntoOneObject ==
    \A k \in ImportKeys :
        /\ Importing => importer.created[k] <= 1
        /\ LastRecord(k) =>
              LET before == feed.last[1].before IN
              /\ k \in feed.last[1].keys => importer.new_objects[k] = before.new_objects[k]
              /\ importer.created[k] > before.created[k] =>
                    k \notin DOMAIN before.old_objects \cup DOMAIN before.new_objects
\* A second record of a key was applied to the object of the first.
DuplicateMerged ==
    \E k \in ImportKeys :
        /\ LastRecord(k)
        /\ k \in feed.last[1].keys
        /\ importer.new_objects[k] = feed.last[1].before.new_objects[k]
        /\ importer.heap[importer.new_objects[k]] # feed.last[1].before.heap[importer.new_objects[k]]

\* C30: save_objects runs only at the end of a pass the parser completed,
\* once, on the populations as the last record left them; a pass the
\* parser aborted has stored nothing.
C30_SavedOnceAfterCompletePass ==
    Importing =>
        /\ importer.saved = (IF feed.phase = "done" THEN 1 ELSE 0)
        /\ feed.phase = "done" =>
              importer.persisted =
                  <<[old_objects |-> importer.old_objects, new_objects |-> importer.new_objects,
                     updated_objects |-> importer.updated_objects, heap |-> importer.heap]>>
        /\ feed.phase # "done" => importer.persisted = <<>>
\* A pass was aborted after it had reconciled records, and a pass of three
\* records was saved.
C30_Witness ==
    /\ Importing
    /\ feed.phase = "aborted"
    /\ Result = {"A", "B"}
    /\ Changed # {}
    /\ importer.saved = 0
C30_WitnessSaved ==
    /\ PassDone
    /\ feed.count = MaxRecords
    /\ importer.saved = 1
    /\ Changed # {}

(***************************************************************************)
(* SpecGrammar: the identifier grammars of the resource classes            *)
(* (identifier_regex), as valid_identifier applies them.  An identifier is *)
(* a sequence of characters.                                               *)
(***************************************************************************)
MaxIdLen == 20      \* SpecGrammar: the longest run of equal characters in an identifier
\* The characters: a digit, a capital, a small letter and the underscore
\* stand for their kinds; "-" is no word character; and the newline.
Digits == {"7"}
Capitals == {"A"}
WordChars == {"7", "A", "a", "_"}
Newline == "\n"
\* '$' after the first n characters of s: the end of the string, or the
\* place before a newline that ends the string
AtEnd(s, n) == n = Len(s) \/ (n = Len(s) - 1 /\ s[Len(s)] = Newline)
\* class{1,most}$ matched from position from of s
RunThenEnd(s, from, most, class) ==
    \E n \in 1..most :
        /\ from + n - 1 <= Len(s)
        /\ \A i \in from..(from + n - 1) : s[i] \in class
        /\ AtEnd(s, from + n - 1)
\* Resource.identifier_regex.match: '[0-9]{1,19}$'
Resource_identifier_regex(s) == RunThenEnd(s, 1, 19, Digits)
\* Catalog.identifier_regex.match: '[A-Z]\w{1,19}$'
Catalog_identifier_regex(s) ==
    /\ Len(s) >= 1
    /\ s[1] \in Capitals
    /\ RunThenEnd(s, 2, 19, WordChars)
\* PublicResource.identifier_regex.match: '\w{1,19}$'
PublicResource_identifier_regex(s) == RunThenEnd(s, 1, 19, WordChars)
\* cls.identifier_regex.match(str(identifier))
identifier_regex_match(cls, s) ==
    CASE cls = "Resource" -> Resource_identifier_regex(s)
      [] cls = "Catalog" -> Catalog_identifier_regex(s)
      [] cls = "PublicResource" -> PublicResource_identifier_regex(s)

GrammarClasses == {"Resource", "Catalog", "PublicResource"}
\* The identifiers: an optional capital, a run of up to MaxIdLen equal
\* characters, and an optional last character that is a newline or a dash.
RunOf(c, n) == [i \in 1..n |-> c]
Identifiers ==
    {head \o RunOf(c, n) \o tail :
        head \in {<<>>, <<"A">>}, c \in {"7", "a", "_"}, n \in 0..MaxIdLen,
        tail \in {<<>>, <<Newline>>, <<"-">>}}

GrammarInit ==
    /\ now = 0
    /\ users = DeployedUsers
    /\ RestIdle
    /\ ConcIdle
    /\ AuthIdle
    /\ SideIdle
    /\ MoreIdle

\* cls.valid_identifier(identifier): NoValidIdentifierError is raised unless
\* the grammar of the class matches.
Validate(cls, identifier) ==
    /\ checked' = <<[cls |-> cls, identifier |-> identifier,
                     valid |-> identifier_regex_match(cls, identifier)]>>
    /\ UNCHANGED <<now, users, restVars, concVars, authVars, sideVars, account, seen, memo>>

GrammarNext ==
    /\ checked = <<>>
    /\ \E cls \in GrammarClasses, identifier \in Identifiers : Validate(cls, identifier)
SpecGrammar == GrammarInit /\ [][GrammarNext]_vars

\* C31: an identifier that the grammar of a resource class accepts has at
\* most 19 characters.
C31_AcceptedIdentifierIsShort ==
    (checked # <<>> /\ checked[1].valid) => Len(checked[1].identifier) <= 19
\* The same for the numeric and the free alphanumeric grammar, on
\* identifiers without a newline.
ShortUnlessCatalogOrNewline ==
    (/\ checked # <<>> /\ checked[1].valid
     /\ checked[1].cls # "Catalog"
     /\ \A i \in DOMAIN checked[1].identifier : checked[1].identifier[i] # Newline)
        => Len(checked[1].identifier) <= 19

(***************************************************************************)
(* SpecUser: the updates of one User entity.  A request body is a          *)
(* dictionary of JSON values; a value is a string or a number.  Each       *)
(* action is one request: the handler makes or loads the User object,      *)
(* calls update_with_string and puts the object as the code does.          *)
(***************************************************************************)
Str(text) == [type |-> "string", text |-> text]
Num(text) == [type |-> "number", text |-> text]
\* dictionary.get(k) is <<>> (None) or <<value>>; the truth value Python
\* gives it in 'if password' or 'if name'
truthy(v) == v # <<>> /\ v[1].text # ""
\* ':'.join(components) in md5_hash raises TypeError on a number
hashable(value) == value.type = "string"

\* User(): the object that Resource.new makes; key is <<>> until the first put
BlankUser == [key |-> <<>>, ha1 |-> <<>>, name |-> "", email |-> ""]
\* self.put(): the datastore allocates the key on the first put, and the
\* entity holds what the object holds at that moment
User_put(user) == [user EXCEPT !.key = IF @ = <<>> THEN <<2>> ELSE @]
\* A comparison that takes every old password for the right one.
password_equals_any(user, value) == TRUE
\* User.password_equals
password_equals(user, value) == <<ha1_from_password(user.key[1], value)>> = user.ha1
\* User.update_with_dictionary, lines 344-356: the part that works on ha1.
\* The result is [user, stored, changes, raised]: the object, the entity of
\* the store (<<>> when there is none), the value of changes and the name
\* of the exception raised ("" when none is).
update_secret(user, stored, dictionary) ==
    IF user.ha1 = <<>>
    THEN IF truthy(dictionary.token) /\ dictionary.realm = <<Str(realm)>>
         THEN LET saved == User_put(user) IN
              IF hashable(dictionary.token[1])
              THEN [user |-> [saved EXCEPT !.ha1 = <<ha1_from_password(saved.key[1], dictionary.token[1].text)>>],
                    stored |-> <<saved>>, changes |-> FALSE, raised |-> ""]
              ELSE [user |-> saved, stored |-> <<saved>>, changes |-> FALSE, raised |-> "TypeError"]
         ELSE [user |-> user, stored |-> stored, changes |-> FALSE, raised |-> "InvalidUpdateDataError"]
    ELSE LET old_password == IF dictionary.old = <<>> THEN Str("") ELSE dictionary.old[1]
             kept == [user |-> user, stored |-> stored, changes |-> FALSE, raised |-> ""]
             failed == [kept EXCEPT !.raised = "TypeError"]
         IN
         IF ~truthy(dictionary.new) THEN kept
         ELSE IF ~hashable(old_password) THEN failed
         ELSE IF ~password_equals(user, old_password.text) THEN kept
         ELSE IF ~hashable(dictionary.new[1]) THEN failed
         ELSE [user |-> [user EXCEPT !.ha1 = <<ha1_from_password(user.key[1], dictionary.new[1].text)>>],
               stored |-> stored, changes |-> TRUE, raised |-> ""]
\* User.update_with_dictionary
User_update_with_dictionary(user, stored, dictionary) ==
    LET s == update_secret(user, stored, dictionary) IN
    IF s.raised # "" THEN s
    ELSE [user |-> [s.user EXCEPT
                       !.name = IF truthy(dictionary.name) THEN dictionary.name[1].text ELSE @,
                       !.email = IF truthy(dictionary.email) THEN dictionary.email[1].text ELSE @],
          stored |-> s.stored,
          changes |-> s.changes \/ truthy(dictionary.name) \/ truthy(dictionary.email),
          raised |-> ""]
\* Resource.update_with_string (json) on a User
User_update_with_string(user, stored, dictionary) ==
    LET u == User_update_with_dictionary(user, stored, dictionary) IN
    IF u.raised = "" /\ u.changes THEN [u EXCEPT !.stored = <<User_put(u.user)>>, !.user = User_put(u.user)]
    ELSE u

\* The dictionaries: the realm, the token, the old and the new password, the
\* name and the email, each absent or given.
Profiles == {[name |-> <<>>, email |-> <<>>], [name |-> <<Str("Ann")>>, email |-> <<>>],
             [name |-> <<>>, email |-> <<Str("ann@example.com")>>]}
UserDictionaries ==
    {[realm |-> r, token |-> t, old |-> o, new |-> n, name |-> p.name, email |-> p.email] :
        r \in {<<>>, <<Str(realm)>>, <<Str("other@example.com")>>},
        t \in {<<>>, <<Str("")>>, <<Str("t1")>>, <<Num("5")>>},
        o \in {<<>>, <<Str("t1")>>, <<Str("n1")>>},
        n \in {<<>>, <<Str("")>>, <<Str("n1")>>, <<Num("5")>>},
        p \in Profiles}

UserInit ==
    /\ now = 0
    /\ users = DeployedUsers
    /\ RestIdle
    /\ ConcIdle
    /\ AuthIdle
    /\ SideIdle
    /\ checked = <<>>
    /\ account = [stored |-> <<>>, last |-> <<>>]
    /\ seen = <<>>
    /\ memo = <<>>

\* The request is over: account.last keeps the dictionary, the object as
\* the handler got it, the object as the handler left it and the entity
\* the store held before.
Updated(dictionary, before, u, stored) ==
    /\ account' = [stored |-> stored,
                   last |-> <<[dictionary |-> dictionary, before |-> before, after |-> u.user,
                               pre |-> account.stored, raised |-> u.raised]>>]
    /\ UNCHANGED <<now, users, restVars, concVars, authVars, sideVars, checked, seen, memo>>
\* RestHandler.post on the class User: a new object is updated and, unless
\* the update raised, put.
PostUser(dictionary) ==
    /\ account.stored = <<>>
    /\ LET u == User_update_with_string(BlankUser, <<>>, dictionary) IN
       Updated(dictionary, BlankUser, u,
               IF u.raised = "" THEN <<User_put(u.user)>> ELSE u.stored)
\* RestHandler.put on an existing User: the object is loaded and updated.
PutUser(dictionary) ==
    /\ account.stored # <<>>
    /\ LET u == User_update_with_string(account.stored[1], account.stored, dictionary) IN
       Updated(dictionary, account.stored[1], u, u.stored)

UserNext ==
    \E dictionary \in UserDictionaries :
        \/ PostUser(dictionary)
        \/ PutUser(dictionary)
SpecUser == UserInit /\ [][UserNext]_vars

(***************************************************************************)
(* Claims on the secret of a principal (SpecUser).                         *)
(***************************************************************************)
LastUpdate == account.last[1]
\* a bootstrap: no secret before, a non-empty token and the deployment realm
Bootstrap ==
    /\ LastUpdate.before.ha1 = <<>>
    /\ truthy(LastUpdate.dictionary.token)
    /\ LastUpdate.dictionary.realm = <<Str(realm)>>
    /\ LastUpdate.after.ha1 =
          <<ha1_from_password(LastUpdate.after.key[1], LastUpdate.dictionary.token[1].text)>>
\* a password change: a non-empty new password and an old password whose
\* derived secret is the one the principal had
PasswordChange ==
    /\ LastUpdate.before.ha1 # <<>>
    /\ truthy(LastUpdate.dictionary.new)
    /\ LastUpdate.dictionary.old # <<>>
    /\ <<ha1_from_password(LastUpdate.before.key[1], LastUpdate.dictionary.old[1].text)>>
          = LastUpdate.before.ha1
    /\ LastUpdate.after.ha1 =
          <<ha1_from_password(LastUpdate.after.key[1], LastUpdate.dictionary.new[1].text)>>
\* the secret the store holds for the principal: <<>> when there is none
StoredSecret(stored) == IF stored = <<>> THEN <<>> ELSE stored[1].ha1
\* C32: an update sets or replaces the secret (ha1) of a principal only as
\* a bootstrap or as a password change; every other update leaves the
\* secret as it was, in the object and in the store; and a secret that is
\* set does not become empty.
C32_SecretSetOnlyByBootstrapOrChange ==
    account # <<>> /\ account.last # <<>>
        => /\ LastUpdate.after.ha1 # LastUpdate.before.ha1 => (Bootstrap \/ PasswordChange)
           /\ StoredSecret(account.stored) # StoredSecret(LastUpdate.pre)
                 => /\ Bootstrap \/ PasswordChange
                    /\ StoredSecret(account.stored) = LastUpdate.after.ha1
           /\ LastUpdate.before.ha1 # <<>> => LastUpdate.after.ha1 # <<>>
           /\ StoredSecret(LastUpdate.pre) # <<>> => StoredSecret(account.stored) # <<>>
\* A password change has replaced the secret that a bootstrap had set.
C32_Witness ==
    /\ account # <<>> /\ account.last # <<>>
    /\ PasswordChange
    /\ LastUpdate.after.ha1 # LastUpdate.before.ha1
    /\ StoredSecret(account.stored) = LastUpdate.after.ha1
\* A bootstrap has set the secret of a new principal.
C32_WitnessBootstrap ==
    /\ account # <<>> /\ account.last # <<>>
    /\ Bootstrap
    /\ StoredSecret(LastUpdate.pre) = <<>>
    /\ StoredSecret(account.stored) = LastUpdate.after.ha1

(***************************************************************************)
(* SpecCatalog: the listing that Catalog.serialization_of_type builds on a *)
(* cache miss, for the stores of a publication class: the few instances    *)
(* "1", "a" and "b" with every last_modified up to MaxNow, and many         *)
(* instances, as many as one fetch returns and one more.                   *)
(***************************************************************************)
FewStores ==
    UNION {[ids -> {[lm |-> t, content |-> <<"v1">>, owner |-> <<>>] : t \in 0..MaxNow}] :
              ids \in SUBSET {"1", "a", "b"}}
\* n instances "1", "2", ... put one after the other: instance i at instant i
ManyInstances(n) ==
    LET named == {<<ToString(i), i>> : i \in 1..n}
    IN [id \in {p[1] : p \in named} |->
           [lm |-> (CHOOSE p \in named : p[1] = id)[2], content |-> <<"v1">>, owner |-> <<>>]]
ManyStores == {ManyInstances(FetchLimit), ManyInstances(FetchLimit + 1)}

CatalogInit ==
    /\ now = 0
    /\ users = DeployedUsers
    /\ resource_class = "Pub"
    /\ \E store \in FewStores \cup ManyStores :
          world = [store |-> store, catalog |-> <<[catalog |-> <<>>, lm |-> 0]>>, nextId |-> 1]
    /\ handler = <<>>
    /\ run = NoRun
    /\ ConcIdle
    /\ AuthIdle
    /\ SideIdle
    /\ MoreIdle

\* Catalog.serialization_of_type on a cache miss
BuildListing ==
    /\ Catalog_miss(world.catalog[1])
    /\ world' = Catalog_serialization_of_type(world, now).w
    /\ UNCHANGED <<now, users, resource_class, handler, run, concVars, authVars, sideVars, moreVars>>

CatalogNext == BuildListing
SpecCatalog == CatalogInit /\ [][CatalogNext]_vars

\* the listing in the cache
Built == world.catalog # <<>> /\ ~Catalog_miss(world.catalog[1])
Listing == world.catalog[1].catalog[1]
\* the entries of the listing are instances of the store, with their
\* last-modified second, newest first
ListingIsSound ==
    /\ \A k \in DOMAIN Listing :
          /\ Listing[k].id \in DOMAIN world.store
          /\ Listing[k].lm = SecondsOf(world.store[Listing[k].id].lm)
    /\ \A k \in DOMAIN Listing : \A l \in DOMAIN Listing :
          (k < l) => (Listing[k].lm >= Listing[l].lm /\ Listing[k].id # Listing[l].id)
\* C33: a listing built on a cache miss contains every instance of the
\* class exactly once, with its identifier and its last-modified value, in
\* descending order of last-modified.
C33_ListingHoldsEveryInstance ==
    Built => /\ ListingIsSound
             /\ \A id \in DOMAIN world.store : \E k \in DOMAIN Listing : Listing[k].id = id
\* What holds: the listing is sound, and complete for a class of at most
\* FetchLimit instances.
ListingHoldsUpToFetchLimit ==
    Built => /\ ListingIsSound
             /\ Cardinality(DOMAIN world.store) <= FetchLimit
                   => \A id \in DOMAIN world.store : \E k \in DOMAIN Listing : Listing[k].id = id

(***************************************************************************)
(* SpecCond: a client that revalidates its copy of the publication         *)
(* /api/pub/a.  The client reads the resource with a plain GET and keeps   *)
(* the Last-Modified and the content it received; an administrator writes  *)
(* the resource with PUT; the client asks again with the Last-Modified it  *)
(* kept as If-Modified-Since.  handler holds the last exchange.            *)
(***************************************************************************)
CondPath == <<"", "api", "pub", "a">>
PlainGetRequest ==
    [method |-> "GET", path |-> CondPath, auth |-> <<>>, ctype |-> <<>>, accept |-> <<JSON>>,
     ims |-> <<>>, ius |-> <<>>, body |-> NoBody]
ConditionalGetRequest(date) == [PlainGetRequest EXCEPT !.ims = <<date>>]
\* the PUT of the administrator; If-Unmodified-Since is the present second
WriteRequest(content, t) ==
    [method |-> "PUT", path |-> CondPath, auth |-> <<GenuineHeader("PUT", CondPath, t, 1)>>,
     ctype |-> <<JSON>>, accept |-> <<>>, ims |-> <<>>, ius |-> <<SecondsOf(t)>>,
     body |-> [json |-> TRUE, content |-> <<content>>, valid |-> TRUE]]

CondInit ==
    /\ now = 0
    /\ users = DeployedUsers
    /\ RestIdle
    /\ ConcIdle
    /\ AuthIdle
    /\ SideIdle
    /\ MoreIdle

CondTick ==
    /\ now < MaxNow
    /\ now' = now + 1
    /\ UNCHANGED <<users, restVars, concVars, authVars, sideVars, moreVars>>
\* The dispatcher serves the request.
Exchange(req, out) ==
    /\ world' = out.w
    /\ handler' = <<[req |-> req,
                     resp |-> [status |-> out.status, lastmod |-> out.lastmod, body |-> out.body,
                               challenge |-> out.challenge, location |-> out.location],
                     user |-> out.user, pre |-> world]>>
    /\ UNCHANGED <<now, users, resource_class, run, concVars, authVars, sideVars, checked, account, memo>>
\* The administrator writes the resource.
Write(content) ==
    /\ Exchange(WriteRequest(content, now),
                dispatch(WriteRequest(content, now), world, users, resource_class, "17", now))
    /\ UNCHANGED seen
\* The client reads the resource and keeps what it received.
PlainGet ==
    LET out == dispatch(PlainGetRequest, world, users, resource_class, "17", now) IN
    /\ out.status = 200
    /\ Exchange(PlainGetRequest, out)
    /\ seen' = <<[lastmod |-> out.lastmod[1], content |-> out.body[1].content]>>
\* The client asks whether its copy is still good.
Revalidate ==
    /\ seen # <<>>
    /\ Exchange(ConditionalGetRequest(seen[1].lastmod),
                dispatch(ConditionalGetRequest(seen[1].lastmod), world, users, resource_class, "17", now))
    /\ UNCHANGED seen

CondNext ==
    \/ CondTick
    \/ \E content \in {"v1", "v2"} : Write(content)
    \/ PlainGet
    \/ Revalidate
SpecCond == CondInit /\ [][CondNext]_vars

\* the last exchange is a revalidation of the copy the client keeps
Revalidated ==
    /\ seen # <<>> /\ Served
    /\ Req.method = "GET" /\ Req.ims = <<seen[1].lastmod>>
\* C34: when the client sends the Last-Modified of its earlier GET as
\* If-Modified-Since and the answer is 304, the content of the resource is
\* the content that GET returned: no write after it has changed the
\* resource, not even one in the same second.
C34_NotModifiedMeansUnchanged ==
    (Revalidated /\ Resp.status = 304)
        => /\ "a" \in DOMAIN world.store
           /\ world.store["a"].content = seen[1].content
\* What holds: a 304 means that no write fell into a later second than the
\* one of the Last-Modified the client keeps.
NotModifiedMeansNoLaterSecond ==
    (Revalidated /\ Resp.status = 304)
        => /\ "a" \in DOMAIN world.store
           /\ SecondsOf(world.store["a"].lm) <= seen[1].lastmod

(***************************************************************************)
(* SpecIds: the memoised list of ids of a class (memcache key              *)
(* '<Class>_ids').  memo holds the keys of the instances in the datastore  *)
(* (store), the instances made by new and not yet put (fresh), the value   *)
(* under the memcache key (cache: <<>> when absent, else <<the ids>>), the *)
(* delete that has removed its key and not yet reset the list (deleting),  *)
(* and the call of all_ids under way: its position pc, its local ids_list  *)
(* and the list it returned last.  A handler is cut at its accesses to the *)
(* datastore and to memcache.                                              *)
(***************************************************************************)
MemoIds == {"a", "b"}
\* 'if not ids_list': an absent and an empty list both count as a miss
not_ids_list(cache) == cache = <<>> \/ cache[1] = {}

IdsInit ==
    /\ now = 0
    /\ users = DeployedUsers
    /\ RestIdle
    /\ ConcIdle
    /\ AuthIdle
    /\ SideIdle
    /\ checked = <<>>
    /\ account = <<>>
    /\ seen = <<>>
    /\ memo = [store |-> {}, fresh |-> {}, cache |-> <<>>, deleting |-> <<>>,
               pc |-> "idle", ids_list |-> {}, returned |-> <<>>]

IdsFrame == UNCHANGED <<now, users, restVars, concVars, authVars, sideVars, checked, account, seen>>
\* Resource.new: the object is made and the list is reset; nothing is put
New(id) ==
    /\ id \notin memo.fresh
    /\ memo' = [memo EXCEPT !.fresh = @ \cup {id}, !.cache = <<>>]
    /\ IdsFrame
\* put of an object that new made, or of an instance that was fetched
PutInstance(id) ==
    /\ id \in memo.fresh \cup memo.store
    /\ memo' = [memo EXCEPT !.store = @ \cup {id}, !.fresh = @ \ {id}]
    /\ IdsFrame
\* Resource.delete, line 83: self.key.delete()
IdsDeleteKey(id) ==
    /\ memo.deleting = <<>>
    /\ id \in memo.store
    /\ memo' = [memo EXCEPT !.store = @ \ {id}, !.deleting = <<id>>]
    /\ IdsFrame
\* Resource.delete, line 84: reset_ids()
IdsDeleteReset ==
    /\ memo.deleting # <<>>
    /\ memo' = [memo EXCEPT !.cache = <<>>, !.deleting = <<>>]
    /\ IdsFrame
\* Resource.all_ids, lines 132-134: memcache.get and the test of the list
AllIdsGet ==
    /\ memo.pc = "idle"
    /\ memo' = IF not_ids_list(memo.cache)
               THEN [memo EXCEPT !.pc = "query"]
               ELSE [memo EXCEPT !.returned = <<memo.cache[1]>>]
    /\ IdsFrame
\* Resource.all_ids, lines 135-136: the keys-only query
AllIdsQuery ==
    /\ memo.pc = "query"
    /\ memo' = [memo EXCEPT !.pc = "set", !.ids_list = memo.store]
    /\ IdsFrame
\* Resource.all_ids, lines 137-138: memcache.set and return
AllIdsSet ==
    /\ memo.pc = "set"
    /\ memo' = [memo EXCEPT !.pc = "idle", !.cache = <<memo.ids_list>>,
                            !.returned = <<memo.ids_list>>]
    /\ IdsFrame

IdsNext ==
    \/ \E id \in MemoIds : New(id)
    \/ \E id \in MemoIds : PutInstance(id)
    \/ \E id \in MemoIds : IdsDeleteKey(id)
    \/ IdsDeleteReset
    \/ AllIdsGet
    \/ AllIdsQuery
    \/ AllIdsSet
SpecIds == IdsInit /\ [][IdsNext]_vars

\* no delete and no all_ids is under way
IdsQuiescent == memo # <<>> /\ memo.deleting = <<>> /\ memo.pc = "idle"
\* C36: after any sequence or interleaving of new, put, delete and all_ids
\* the memoised list of ids is absent (or empty, which all_ids takes for
\* absent) or it is the set of the ids of the instances in the store.
C36_MemoAbsentOrCurrent ==
    IdsQuiescent => (not_ids_list(memo.cache) \/ memo.cache[1] = memo.store)

====
